---- MODULE Spec2Model ----
(***************************************************************************)
(* A model of the PCjs x86 Debugger component                              *)
(* (src/modules/pcjs/lib/debugger.js): the breakpoint engine, the          *)
(* instruction history tracker, history playback and the step-over         *)
(* command.                                                                *)
(*                                                                         *)
(* JavaScript arrays are modelled as sequences; JS index i is sequence     *)
(* index i+1.  The breakpoint arrays keep their tag ("exec", "read",       *)
(* "write") as element 0 exactly as the code does, so aBreak.length is     *)
(* Len(aBreak).  The fields of the Debugger object are threaded through    *)
(* the operators as one record s; an operator that both changes the        *)
(* object and returns a value yields a record [s, <value>].                *)
(***************************************************************************)
EXTENDS Integers, Sequences, FiniteSets, TLC

\* JS null / undefined in a numeric field of a DbgAddr
NULL == -2
\* X86.ADDR_INVALID, the sentinel getAddr() returns for an unresolvable address
ADDR_INVALID == -1

\* Message category names standing for the bits Messages.INT and Messages.HALT
MSG_INT == "int"
MSG_HALT == "halt"
MSG_WARN == "warn"

\* opcode bytes (Debugger.aaOpDescs): INT3, NOP, the operand-size and
\* address-size prefixes
OPCODE_INT3 == 204
OPCODE_NOP == 144
OPCODE_OS == 102
OPCODE_AS == 103

----------------------------------------------------------------------------
(* Bounds of the model *)

\* largest number of breakpoints held by the three collections together
MaxBreaks == 2
\* largest absolute net count of bus registrations tracked for one address
MaxNet == 2
\* number of slots of the history buffer (Debugger.HISTORY_LIMIT scaled down)
HistoryLimit == 4
\* largest value of cInstructions the model follows
MaxInstr == 5
\* largest number of bytes of a traced program
MaxProg == 3

----------------------------------------------------------------------------
VARIABLES
    machine,            \* CPU model, bus limit, CS segment and CPU mode (fixed by initBus)
    DEBUG,              \* build flag DEBUG
    bitsMessage,        \* enabled message categories
    aBreakExec,         \* exec breakpoints, element 0 (index 1) is the tag
    aBreakRead,         \* read breakpoints
    aBreakWrite,        \* write breakpoints
    nSuppressBreaks,    \* nesting counter
    memBreaks,          \* bus: net addMemBreak - removeMemBreak calls per <<addr, fWrite>>
    aOpcodeHistory,     \* history buffer (empty when freed)
    iOpcodeHistory,     \* write cursor of the history buffer
    aaOpcodeCounts,     \* opcode counters (empty when freed)
    cInstructions,      \* instruction counter
    fProcStep,          \* step-over in progress (0, 1 or 2)
    fRunning,           \* aFlags.fRunning
    mem,                \* the bytes of the program the CPU executes, from CS:0000 on
    regLIP,             \* cpu.regLIP, the linear address of the next dispatch
    dbgAddrNextData,    \* the DbgAddr the data commands work on and advance
    dbgAddrNextCode,    \* the DbgAddr the disassembler works on and advances
    aSymbolTable,       \* the symbol tables addSymbols() pushed
    dbgAddrAssemble,    \* the DbgAddr the assembler works on
    fAssemble,          \* assemble mode
    aPrevCmds,          \* the command history, the latest command first
    iPrevCmd,           \* the position of the command line in the history
    regs,               \* cpu.regEAX, regEBX, regECX and regEDX
    ret                 \* the last operation, its arguments and what it returned

vars == <<machine, DEBUG, bitsMessage, aBreakExec, aBreakRead, aBreakWrite,
          nSuppressBreaks, memBreaks, aOpcodeHistory, iOpcodeHistory,
          aaOpcodeCounts, cInstructions, fProcStep, fRunning, mem, regLIP,
          dbgAddrNextData, dbgAddrNextCode, aSymbolTable, dbgAddrAssemble, fAssemble,
          aPrevCmds, iPrevCmd, regs, ret>>

\* the fields of the assembler and of the command line
typed == <<dbgAddrAssemble, fAssemble, aPrevCmds, iPrevCmd>>

\* the fields only the symbol commands, the assembler, the command line and the
\* register command assign
others == <<aSymbolTable, typed, regs>>

----------------------------------------------------------------------------
(* Sequencing: "var x = e; ... x ..." is With(e, LAMBDA x : ...), e being
   evaluated once *)
With(e, F(_)) == CHOOSE r \in {F(x) : x \in {e}} : TRUE

----------------------------------------------------------------------------
(* Segments: the collaborator X86Seg as getSegment()/getAddr() use it *)

NoSeg == [ok |-> FALSE, sel |-> NULL, base |-> 0, offMax |-> 0, dataSize |-> 2, addrSize |-> 2]

\* segDebugger.loadReal(sel): a real-mode segment, base sel*16, 64KB limit
loadReal(sel) ==
    [ok |-> TRUE, sel |-> sel, base |-> sel * 16, offMax |-> 65536,
     dataSize |-> 2, addrSize |-> 2]

\* segDebugger.loadProt(sel): the descriptor table maps selector 0008 to a
\* 64KB segment at F0000 and selector 0010 to a 4KB segment at 20000, both 16-bit
\* segments; any other selector has no valid descriptor
loadProt(sel) ==
    [ok |-> TRUE, sel |-> sel,
     base |-> IF sel = 8 THEN 983040 ELSE IF sel = 16 THEN 131072 ELSE 0,
     offMax |-> IF sel = 8 THEN 65536 ELSE IF sel = 16 THEN 4096 ELSE 0,
     dataSize |-> 2, addrSize |-> 2]

\* seg.checkRead(off, nb, true): the linear address, or ADDR_INVALID past the limit
checkRead(seg, off, nb) ==
    IF off >= 0 /\ off + nb <= seg.offMax THEN seg.base + off ELSE ADDR_INVALID

\* getSegment(sel, fProt) with fProt undefined or equal to the current mode
getSegment(sel, nSuppress) ==
    IF sel = machine.segCS.sel THEN machine.segCS
    ELSE IF nSuppress > 0 /\ machine.fProtMode THEN NoSeg
    ELSE IF ~machine.fProtMode THEN loadReal(sel)
    ELSE loadProt(sel)

\* getAddr(): the part after getSegment() returned seg
getAddrIn(dbgAddr, seg) ==
    IF seg.ok
    THEN With(checkRead(seg, dbgAddr.off, 1),
              LAMBDA addr : <<addr, [dbgAddr EXCEPT !.addr = addr]>>)
    ELSE <<ADDR_INVALID, dbgAddr>>

\* getAddr(dbgAddr, fWrite, nb): <<linear address, dbgAddr with the address cached>>
getAddr(dbgAddr, nSuppress) ==
    IF dbgAddr.addr # NULL THEN <<dbgAddr.addr, dbgAddr>>
    ELSE getAddrIn(dbgAddr, getSegment(dbgAddr.sel, nSuppress))

\* newAddr(off, sel, addr, fProt, fData32, fAddr32) with the sizes given
newAddrSized(off, sel, addr, fData32, fAddr32) ==
    [off |-> off, sel |-> sel, addr |-> addr, fTempBreak |-> FALSE,
     fData32 |-> fData32, fAddr32 |-> fAddr32]

\* newAddr(off, sel, addr): the sizes default to those of the code segment
newAddr(off, sel, addr) ==
    newAddrSized(off, sel, addr, machine.segCS.dataSize = 4, machine.segCS.addrSize = 4)

----------------------------------------------------------------------------
(* The Debugger object *)

Dbg ==
    [aBreakExec |-> aBreakExec, aBreakRead |-> aBreakRead,
     aBreakWrite |-> aBreakWrite, nSuppressBreaks |-> nSuppressBreaks,
     memBreaks |-> memBreaks, aOpcodeHistory |-> aOpcodeHistory,
     iOpcodeHistory |-> iOpcodeHistory, aaOpcodeCounts |-> aaOpcodeCounts,
     cInstructions |-> cInstructions, fProcStep |-> fProcStep,
     fRunning |-> fRunning, bitsMessage |-> bitsMessage]

Coll(s, c) ==
    CASE c = "exec" -> s.aBreakExec
      [] c = "read" -> s.aBreakRead
      [] c = "write" -> s.aBreakWrite

SetColl(s, c, a) ==
    CASE c = "exec" -> [s EXCEPT !.aBreakExec = a]
      [] c = "read" -> [s EXCEPT !.aBreakRead = a]
      [] c = "write" -> [s EXCEPT !.aBreakWrite = a]

\* the bus's registrations with key k set to net count n; a key whose net count is 0 is dropped
busSet(mb, k, n) ==
    [x \in (IF n = 0 THEN DOMAIN mb \ {k} ELSE DOMAIN mb \cup {k}) |->
        IF x = k THEN n ELSE mb[x]]

\* the bus's registrations with the net count of key k changed by d
busChange(mb, k, d) == busSet(mb, k, (IF k \in DOMAIN mb THEN mb[k] ELSE 0) + d)

\* bus.addMemBreak(addr, fWrite)
busAdd(mb, addr, fWrite) == busChange(mb, <<addr, fWrite>>, 1)

\* bus.removeMemBreak(addr, fWrite)
busRemove(mb, addr, fWrite) == busChange(mb, <<addr, fWrite>>, -1)

----------------------------------------------------------------------------
(* messageEnabled(bits): every requested category is enabled *)
messageEnabled(s, bits) == bits # {} /\ bits \subseteq s.bitsMessage

\* checksEnabled(fRelease) with the comparison off by one: "aBreakExec.length > 2"
checksEnabled_LengthOver2(s, fRelease) ==
    IF DEBUG /\ ~fRelease THEN TRUE
    ELSE Len(s.aBreakExec) > 2 \/ messageEnabled(s, {MSG_INT})

\* checksEnabled(fRelease)
checksEnabled(s, fRelease) ==
    IF DEBUG /\ ~fRelease THEN TRUE
    ELSE Len(s.aBreakExec) > 1 \/ messageEnabled(s, {MSG_INT})

\* bytes memory holds: the opcode counters the model keeps are those of the
\* 256 that can ever be incremented
ByteVals == {OPCODE_NOP, OPCODE_INT3, OPCODE_OS, OPCODE_AS}

\* the history slot newAddr() preallocates (off || 0, sel and addr undefined)
EmptySlot == [off |-> 0, sel |-> NULL, addr |-> NULL]

\* historyInit()
historyInit(s) ==
    IF ~checksEnabled(s, FALSE)
    THEN [s EXCEPT !.iOpcodeHistory = 0, !.aOpcodeHistory = <<>>,
                   !.aaOpcodeCounts = <<>>]
    ELSE [s EXCEPT
            !.iOpcodeHistory = IF Len(s.aOpcodeHistory) = 0 THEN 0 ELSE @,
            !.aOpcodeHistory = IF Len(@) = 0
                               THEN [i \in 1..HistoryLimit |-> EmptySlot] ELSE @,
            !.aaOpcodeCounts = IF DOMAIN @ = {}
                               THEN [b \in ByteVals |-> 0] ELSE @]

\* the fold of mapBreakpoint(), maskHi being maskAddr >>> 16: maskAddr is 2^n - 1,
\* so with its low 16 bits cleared "(addr & mask) == mask" holds when the bits of
\* addr from bit 16 up to the top of the mask are all ones
mapUnder(addr, maskHi) ==
    IF (addr \div 65536) % (maskHi + 1) = maskHi THEN addr % 1048576 ELSE addr

\* mapBreakpoint(addr) folding every valid address into the first megabyte,
\* whether or not it lies in the top 64KB
mapBreakpoint_Always(addr) ==
    IF addr # ADDR_INVALID THEN addr % 1048576
    ELSE addr

\* mapBreakpoint(addr)
mapBreakpoint(addr) ==
    IF addr # ADDR_INVALID THEN mapUnder(addr, machine.maskAddrHi)
    ELSE addr

----------------------------------------------------------------------------
(* Breakpoint engine *)

\* aBreak.splice(j-1, 1)
Splice(a, j) == [k \in 1..(Len(a) - 1) |-> IF k < j THEN a[k] ELSE a[k + 1]]

\* findBreakpoint(): the body of "if (fRemove)" for the entry at sequence index j
findRemove(s, c, addr, j) ==
    historyInit([SetColl(s, c, Splice(Coll(s, c), j)) EXCEPT
                    !.memBreaks = IF c # "exec" THEN busRemove(@, addr, c = "write")
                                  ELSE @])

\* the comparison of findBreakpoint() against an entry whose address, when the
\* wanted addr is valid, getAddr() resolved to addrBreak
findMatch(dbgAddr, addr, dbgAddrBreak, addrBreak) ==
    \/ addr # ADDR_INVALID /\ addr = mapBreakpoint(addrBreak)
    \/ addr = ADDR_INVALID /\ dbgAddr.sel = dbgAddrBreak.sel
                           /\ dbgAddr.off = dbgAddrBreak.off

\* findBreakpoint(aBreak, dbgAddr, fRemove): the for loop from sequence index j on,
\* addr being mapBreakpoint(getAddr(dbgAddr)); returns the state and fFound
RECURSIVE findLoop(_, _, _, _, _, _)
\* one iteration: r is getAddr(aBreak[j]), which ran (and cached) only when addr is valid
findStep(s, c, dbgAddr, addr, fRemove, j, r) ==
    With(IF addr # ADDR_INVALID
         THEN SetColl(s, c, [Coll(s, c) EXCEPT ![j] = r[2]]) ELSE s,
         LAMBDA s1 :
            IF findMatch(dbgAddr, addr, Coll(s, c)[j], r[1])
            THEN IF fRemove
                 THEN [s |-> findRemove(s1, c, addr, j), fFound |-> TRUE]
                 ELSE [s |-> s1, fFound |-> TRUE]
            ELSE findLoop(s1, c, dbgAddr, addr, fRemove, j + 1))

findLoop(s, c, dbgAddr, addr, fRemove, j) ==
    IF j > Len(Coll(s, c)) THEN [s |-> s, fFound |-> FALSE]
    ELSE findStep(s, c, dbgAddr, addr, fRemove, j,
                  getAddr(Coll(s, c)[j], s.nSuppressBreaks))

\* findBreakpoint() once getAddr(dbgAddr) returned r
findFrom(s, c, r, fRemove) ==
    With(findLoop(s, c, r[2], mapBreakpoint(r[1]), fRemove, 2),
         LAMBDA f : [s |-> f.s, fFound |-> f.fFound, dbgAddr |-> r[2]])

\* findBreakpoint(aBreak, dbgAddr, fRemove): [s, fFound, dbgAddr (with its address cached)]
findBreakpoint(s, c, dbgAddr, fRemove) ==
    findFrom(s, c, getAddr(dbgAddr, s.nSuppressBreaks), fRemove)

\* addBreakpoint(): "if (fTemp) { if (dbgAddr.addr) dbgAddr.sel = null; }"
forceLinear(dbgAddr, fTemp) ==
    IF fTemp /\ dbgAddr.addr # NULL /\ dbgAddr.addr # 0
    THEN [dbgAddr EXCEPT !.sel = NULL] ELSE dbgAddr

\* addBreakpoint(): the body of "if (!findBreakpoint(...))", g being what
\* getAddr(dbgAddr) yields for the bus registration of a read or write breakpoint
addNew(s, c, fTemp, g) ==
    With(SetColl([s EXCEPT !.memBreaks = IF c # "exec" THEN busAdd(@, g[1], c = "write")
                                         ELSE @],
                 c, Append(Coll(s, c), forceLinear(g[2], fTemp))),
         LAMBDA s2 : IF ~fTemp THEN historyInit(s2) ELSE s2)

\* addBreakpoint() once findBreakpoint() returned f
addFrom(c, fTemp, f) ==
    IF ~f.fFound
    THEN [s |-> [addNew(f.s, c, fTemp,
                        IF c # "exec"
                        THEN getAddr([f.dbgAddr EXCEPT !.fTempBreak = fTemp],
                                     f.s.nSuppressBreaks)
                        ELSE <<NULL, [f.dbgAddr EXCEPT !.fTempBreak = fTemp]>>)
                 EXCEPT !.nSuppressBreaks = @ - 1],
          fSuccess |-> TRUE]
    ELSE [s |-> [f.s EXCEPT !.nSuppressBreaks = @ - 1], fSuccess |-> FALSE]

\* addBreakpoint(aBreak, dbgAddr, fTemp): [s, fSuccess]
addBreakpoint(s, c, dbgAddr, fTemp) ==
    addFrom(c, fTemp,
            findBreakpoint([s EXCEPT !.nSuppressBreaks = @ + 1], c, dbgAddr, FALSE))

\* the inner loop of checkBreakpoint: for (n = 0; n < nb; n++) { ...; addrBreak++; n++; }
RECURSIVE hitLoop(_, _, _, _)
hitLoop(addr, addrBreak, n, nb) ==
    IF n >= nb THEN FALSE
    ELSE IF addr + n = addrBreak THEN TRUE
    ELSE hitLoop(addr, addrBreak + 1, (n + 1) + 1, nb)

\* checkBreakpoint(): "if (dbgAddrBreak.sel != null) dbgAddrBreak.addr = null;"
zapAddr(dbgAddrBreak) ==
    IF dbgAddrBreak.sel # NULL THEN [dbgAddrBreak EXCEPT !.addr = NULL]
    ELSE dbgAddrBreak

\* the outer loop of checkBreakpoint from sequence index j on: [s, fBreak]
RECURSIVE checkLoop(_, _, _, _, _)
\* one iteration: r is getAddr(aBreak[j]) after its address was zapped
checkStep(s, c, addr, nb, j, r) ==
    With(SetColl(s, c, [Coll(s, c) EXCEPT ![j] = r[2]]),
         LAMBDA s1 :
            IF hitLoop(addr, mapBreakpoint(r[1]), 0, nb)
            THEN IF r[2].fTempBreak
                 THEN [s |-> findBreakpoint(s1, c, r[2], TRUE).s, fBreak |-> TRUE]
                 ELSE [s |-> s1, fBreak |-> TRUE]
            ELSE checkLoop(s1, c, addr, nb, j + 1))

checkLoop(s, c, addr, nb, j) ==
    IF j > Len(Coll(s, c)) THEN [s |-> s, fBreak |-> FALSE]
    ELSE checkStep(s, c, addr, nb, j,
                   getAddr(zapAddr(Coll(s, c)[j]), s.nSuppressBreaks))

\* checkBreakpoint(): the tail "this.nSuppressBreaks--; return fBreak;"
checkDone(r) == [s |-> [r.s EXCEPT !.nSuppressBreaks = @ - 1], fBreak |-> r.fBreak]

\* checkBreakpoint() scanning whatever the nesting counter is
checkBreakpoint_Unguarded(s, addr, nb, c, fTemp, bMem) ==
    checkDone(IF messageEnabled(s, {MSG_INT, MSG_HALT}) /\ bMem = OPCODE_INT3
              THEN [s |-> [s EXCEPT !.nSuppressBreaks = @ + 1], fBreak |-> TRUE]
              ELSE checkLoop([s EXCEPT !.nSuppressBreaks = @ + 1], c,
                             mapBreakpoint(addr), nb, 2))

\* checkBreakpoint(addr, nb, aBreak, fTemp), bMem being the byte cpu.probeAddr()
\* reads at the mapped address: [s, fBreak]
checkBreakpoint(s, addr, nb, c, fTemp, bMem) ==
    IF s.nSuppressBreaks = 0
    THEN checkDone(IF messageEnabled(s, {MSG_INT, MSG_HALT}) /\ bMem = OPCODE_INT3
                   THEN [s |-> [s EXCEPT !.nSuppressBreaks = @ + 1], fBreak |-> TRUE]
                   ELSE checkLoop([s EXCEPT !.nSuppressBreaks = @ + 1], c,
                                  mapBreakpoint(addr), nb, 2))
    ELSE [s |-> s, fBreak |-> FALSE]

\* the loops of clearBreakpoints() over a read or write array, from index j on
RECURSIVE unregisterAll(_, _, _, _, _)
unregisterAll(mb, aBreak, fWrite, nSuppress, j) ==
    IF j > Len(aBreak) THEN mb
    ELSE unregisterAll(busRemove(mb, getAddr(aBreak[j], nSuppress)[1], fWrite),
                       aBreak, fWrite, nSuppress, j + 1)

\* clearBreakpoints()
clearBreakpoints(s) ==
    [s EXCEPT !.aBreakExec = <<"exec">>, !.aBreakRead = <<"read">>,
              !.aBreakWrite = <<"write">>,
              !.memBreaks = unregisterAll(
                                unregisterAll(@, s.aBreakRead, FALSE, s.nSuppressBreaks, 2),
                                s.aBreakWrite, TRUE, s.nSuppressBreaks, 2),
              !.nSuppressBreaks = 0]

\* clearTempBreakpoint() without an address: the loop from sequence index j on
RECURSIVE clearTempLoop(_, _)
\* "if (!this.findBreakpoint(this.aBreakExec, dbgAddrBreak, true)) break; i = 0;"
clearTempFound(f) == IF ~f.fFound THEN f.s ELSE clearTempLoop(f.s, 2)

clearTempLoop(s, j) ==
    IF j > Len(s.aBreakExec) THEN s
    ELSE IF s.aBreakExec[j].fTempBreak
    THEN clearTempFound(findBreakpoint(s, "exec", s.aBreakExec[j], TRUE))
    ELSE clearTempLoop(s, j + 1)

\* setTempBreakpoint(dbgAddr)
setTempBreakpoint(s, dbgAddr) == addBreakpoint(s, "exec", dbgAddr, TRUE).s

\* clearTempBreakpoint(addr); addr = NULL stands for no address given
clearTempBreakpoint(s, addr, bMem) ==
    IF addr # NULL
    THEN [checkBreakpoint(s, addr, 1, "exec", TRUE, bMem).s EXCEPT !.fProcStep = 0]
    ELSE clearTempLoop(s, 2)

\* checkInstruction(): the history slot written for the dispatch at addr
historySlot(addr) ==
    [off |-> addr - machine.segCS.base, sel |-> machine.segCS.sel, addr |-> addr]

\* checkInstruction(): "if (++this.iOpcodeHistory == this.aOpcodeHistory.length) this.iOpcodeHistory = 0;"
\* with the wrap-around left out
nextHistory_NoWrap(i, length) == i + 1

\* checkInstruction(): "if (++this.iOpcodeHistory == this.aOpcodeHistory.length) this.iOpcodeHistory = 0;"
nextHistory(i, length) == IF i + 1 = length THEN 0 ELSE i + 1

\* checkInstruction(): the tracking part "if (nState >= 0 && this.aaOpcodeCounts.length)"
trackInstruction(s, addr, nState, bOpcode) ==
    IF nState >= 0 /\ DOMAIN s.aaOpcodeCounts # {}
    THEN [s EXCEPT !.cInstructions = @ + 1,
                   !.aaOpcodeCounts[bOpcode] = @ + 1,
                   !.aOpcodeHistory[s.iOpcodeHistory + 1] = historySlot(addr),
                   !.iOpcodeHistory = nextHistory(@, Len(s.aOpcodeHistory))]
    ELSE s

\* checkInstruction() once checkBreakpoint() returned cb (no hit when nState <= 0)
checkInstructionFrom(cb, addr, nState, bOpcode, fHalt) ==
    IF cb.fBreak THEN [s |-> cb.s, fBreak |-> TRUE]
    ELSE IF nState > 0 /\ fHalt THEN [s |-> cb.s, fBreak |-> TRUE]
    ELSE [s |-> trackInstruction(cb.s, addr, nState, bOpcode), fBreak |-> FALSE]

\* checkInstruction(addr, nState): bOpcode is the byte at addr, fHalt the condition
\* "interrupts disabled and IOPL < CPL": [s, fBreak]
checkInstruction(s, addr, nState, bOpcode, fHalt) ==
    checkInstructionFrom(IF nState > 0
                         THEN checkBreakpoint(s, addr, 1, "exec", FALSE, bOpcode)
                         ELSE [s |-> s, fBreak |-> FALSE],
                         addr, nState, bOpcode, fHalt)

----------------------------------------------------------------------------
(* Inputs *)

\* the machines initBus() can find: an 8086 (1MB bus), an 80286 just after reset
\* (16MB bus, CS F000 based at FF0000, real mode), an 80286 in protected mode and
\* an 80386 (4GB bus) running real-mode code in the first megabyte; maskAddrHi is
\* the bus's address mask >>> 16 and every code segment is a 16-bit one
Machines ==
    { [model |-> 8086, maskAddrHi |-> 15, fProtMode |-> FALSE,
       segCS |-> [ok |-> TRUE, sel |-> 61440, base |-> 983040, offMax |-> 65536,
                 dataSize |-> 2, addrSize |-> 2]],
      [model |-> 80286, maskAddrHi |-> 255, fProtMode |-> FALSE,
       segCS |-> [ok |-> TRUE, sel |-> 61440, base |-> 16711680, offMax |-> 65536,
                 dataSize |-> 2, addrSize |-> 2]],
      [model |-> 80286, maskAddrHi |-> 255, fProtMode |-> TRUE,
       segCS |-> [ok |-> TRUE, sel |-> 61440, base |-> 983040, offMax |-> 65536,
                 dataSize |-> 2, addrSize |-> 2]],
      [model |-> 80386, maskAddrHi |-> 65535, fProtMode |-> FALSE,
       segCS |-> [ok |-> TRUE, sel |-> 61440, base |-> 983040, offMax |-> 65536,
                 dataSize |-> 2, addrSize |-> 2]] }

\* addresses parseAddr() hands to doBreak: F000:FFF0, 0008:FFF0, %FFFF0, %FFFF1
BreakInputs ==
    { newAddr(65520, 61440, NULL), newAddr(65520, 8, NULL),
      newAddr(0, NULL, 1048560), newAddr(0, NULL, 1048561) }

\* linear addresses of memory accesses: FFFED, FFFEF, FFFF0 and FFFFF0
AccessAddrs == {1048557, 1048559, 1048560, 16777200}
AccessSizes == {1, 2, 4}

\* the offset in CS of the first instruction the CPU executes after a reset
ResetIP == 65520

\* the bytes of the programs found at CS:FFF0: NOPs and INT3s and, on an 80386,
\* operand-size and address-size prefixes
CodeBytes(m) ==
    IF m.model = 80386 THEN {OPCODE_NOP, OPCODE_INT3, OPCODE_OS, OPCODE_AS}
    ELSE {OPCODE_NOP, OPCODE_INT3}

\* the programs of MaxProg bytes found at CS:FFF0 of machine m, ending with a NOP
Programs(m) ==
    { p \in [1..MaxProg -> CodeBytes(m)] : p[MaxProg] = OPCODE_NOP }

\* no program is followed: the bytes memory holds are inputs of the operations
NoProgram(m) == {<<>>}

NumBreaks(s) == (Len(s.aBreakExec) - 1) + (Len(s.aBreakRead) - 1) + (Len(s.aBreakWrite) - 1)

NetBounded(s) == \A k \in DOMAIN s.memBreaks :
                    s.memBreaks[k] <= MaxNet /\ -(s.memBreaks[k]) <= MaxNet

----------------------------------------------------------------------------
(* State after the constructor, initBus() and powerUp(), the CPU being at the
   reset address of a machine whose memory holds one of the given programs *)

InitState(machines, programs(_)) ==
    /\ machine \in machines
    /\ DEBUG \in BOOLEAN
    /\ bitsMessage = {MSG_WARN}
    /\ aBreakExec = <<"exec">>
    /\ aBreakRead = <<"read">>
    /\ aBreakWrite = <<"write">>
    /\ nSuppressBreaks = 0
    /\ memBreaks = <<>>
    /\ \E h \in {historyInit([aBreakExec |-> <<"exec">>, bitsMessage |-> {MSG_WARN},
                              aOpcodeHistory |-> <<>>, iOpcodeHistory |-> 0,
                              aaOpcodeCounts |-> <<>>])} :
          /\ aOpcodeHistory = h.aOpcodeHistory
          /\ iOpcodeHistory = h.iOpcodeHistory
          /\ aaOpcodeCounts = h.aaOpcodeCounts
    /\ cInstructions = 0
    /\ fProcStep = 0
    /\ fRunning = FALSE
    /\ mem \in programs(machine)
    /\ regLIP = machine.segCS.base + ResetIP
    /\ dbgAddrNextData = newAddr(0, NULL, NULL)
    /\ dbgAddrNextCode = newAddr(ResetIP, machine.segCS.sel, NULL)
    /\ aSymbolTable = <<>>
    /\ dbgAddrAssemble = newAddr(0, NULL, NULL)
    /\ fAssemble = FALSE
    /\ aPrevCmds = <<>>
    /\ iPrevCmd = -1
    /\ regs = [EAX |-> 0, EBX |-> 0, ECX |-> 0, EDX |-> 0]

\* no command has been given yet
InitOf(machines, programs(_)) ==
    /\ InitState(machines, programs)
    /\ ret = [op |-> "init", fResult |-> TRUE]

InitWith(programs(_)) == InitOf(Machines, programs)

Init == InitWith(NoProgram)

\* the debugger's fields after an operation left them as s
Fields(s) ==
    /\ aBreakExec' = s.aBreakExec
    /\ aBreakRead' = s.aBreakRead
    /\ aBreakWrite' = s.aBreakWrite
    /\ nSuppressBreaks' = s.nSuppressBreaks
    /\ memBreaks' = s.memBreaks
    /\ aOpcodeHistory' = s.aOpcodeHistory
    /\ iOpcodeHistory' = s.iOpcodeHistory
    /\ aaOpcodeCounts' = s.aaOpcodeCounts
    /\ cInstructions' = s.cInstructions
    /\ fProcStep' = s.fProcStep
    /\ fRunning' = s.fRunning
    /\ bitsMessage' = s.bitsMessage

\* the same, of an operation that assigns neither an address cursor nor a field
\* of the command line
Becomes(s) ==
    /\ Fields(s)
    /\ UNCHANGED <<machine, DEBUG, mem, dbgAddrNextData, dbgAddrNextCode, others>>

----------------------------------------------------------------------------
(* Operations on breakpoints and messages *)

\* array a holds a breakpoint entered with the selector:offset of dbgAddr
Present(a, dbgAddr) ==
    /\ dbgAddr.sel # NULL
    /\ \E j \in 2..Len(a) : a[j].sel = dbgAddr.sel /\ a[j].off = dbgAddr.off

\* doBreak "bp", "br", "bw" with an address
DoBreakSet(c, dbgAddr) ==
    /\ NumBreaks(Dbg) < MaxBreaks
    /\ \E r \in {addBreakpoint(Dbg, c, dbgAddr, FALSE)} :
          /\ NetBounded(r.s)
          /\ Becomes(r.s)
          /\ ret' = [op |-> "addBreakpoint", fResult |-> r.fSuccess,
                     fPresent |-> Present(Coll(Dbg, c), dbgAddr),
                     fGrew |-> Len(Coll(r.s, c)) > Len(Coll(Dbg, c))]
    /\ UNCHANGED regLIP

\* doBreak "bc": the search of the read, then the write collection, fr being
\* what the search of the read collection returned
clearInWrite(fr) ==
    IF fr.fFound THEN fr ELSE findBreakpoint(fr.s, "write", fr.dbgAddr, TRUE)

\* doBreak "bc": the searches after that of the exec collection returned fe
clearInRead(fe) ==
    IF fe.fFound THEN fe
    ELSE clearInWrite(findBreakpoint(fe.s, "read", fe.dbgAddr, TRUE))

\* doBreak "bc" with an address: the exec, then the read, then the write collection
DoBreakClear(dbgAddr) ==
    /\ \E r \in {clearInRead(findBreakpoint(Dbg, "exec", dbgAddr, TRUE))} :
          /\ NetBounded(r.s)
          /\ Becomes(r.s)
          /\ ret' = [op |-> "findBreakpoint", fResult |-> r.fFound]
    /\ UNCHANGED regLIP

\* doBreak "bc *"
DoBreakClearAll ==
    /\ \E s \in {clearBreakpoints(Dbg)} :
          /\ NetBounded(s)
          /\ Becomes(s)
    /\ ret' = [op |-> "clearBreakpoints", fResult |-> TRUE]
    /\ UNCHANGED regLIP

\* checkMemoryRead(addr, nb) and checkMemoryWrite(addr, nb), called by a memory
\* block; stopCPU() follows a hit
CheckMemory(c, addr, nb, bMem) ==
    /\ \E r \in {checkBreakpoint(Dbg, addr, nb, c, FALSE, bMem)} :
          /\ Becomes(r.s)
          /\ ret' = [op |-> "checkMemory", c |-> c, addr |-> addr, nb |-> nb,
                     bMem |-> bMem, fResult |-> r.fBreak, fStopCPU |-> r.fBreak]
    /\ UNCHANGED regLIP

\* checkMemoryRead(addr, nb)
CheckMemoryRead(addr, nb, bMem) == CheckMemory("read", addr, nb, bMem)

\* checkMemoryWrite(addr, nb)
CheckMemoryWrite(addr, nb, bMem) == CheckMemory("write", addr, nb, bMem)

\* doMessages "m <category> on|off"
DoMessages(m, fOn) ==
    /\ Becomes(historyInit([Dbg EXCEPT !.bitsMessage =
                                IF fOn THEN @ \cup {m} ELSE @ \ {m}]))
    /\ ret' = [op |-> "doMessages", fResult |-> TRUE]
    /\ UNCHANGED regLIP

Next ==
    \/ \E c \in {"exec", "read", "write"}, a \in BreakInputs : DoBreakSet(c, a)
    \/ \E a \in BreakInputs : DoBreakClear(a)
    \/ DoBreakClearAll
    \/ \E fOn \in BOOLEAN : DoMessages(MSG_INT, fOn)

\* the breakpoint commands and the message command
Spec == Init /\ [][Next]_vars

NextMem ==
    \/ \E c \in {"read", "write"}, a \in BreakInputs : DoBreakSet(c, a)
    \/ \E addr \in AccessAddrs, nb \in AccessSizes, b \in {OPCODE_NOP, OPCODE_INT3} :
          CheckMemoryRead(addr, nb, b)
    \/ \E addr \in AccessAddrs, nb \in AccessSizes, b \in {OPCODE_NOP, OPCODE_INT3} :
          CheckMemoryWrite(addr, nb, b)
    \/ \E m \in {MSG_INT, MSG_HALT}, fOn \in BOOLEAN : DoMessages(m, fOn)

\* read and write breakpoints and the memory accesses checked against them
SpecMem == Init /\ [][NextMem]_vars

----------------------------------------------------------------------------
(* The program the CPU follows, and the CPU as the Debugger sees it *)

\* the linear address of the first byte of the program
CodeStart == machine.segCS.base + ResetIP

\* linear address addr lies in the program
InProgram(addr) ==
    (mapBreakpoint(addr) - mapBreakpoint(CodeStart)) + 1 \in 1..Len(mem)

\* cpu.probeAddr(addr): the byte at linear address addr; the top of the address
\* space aliases the top of the first megabyte and NOPs follow the program
probeAddr(addr) ==
    IF InProgram(addr) THEN mem[(mapBreakpoint(addr) - mapBreakpoint(CodeStart)) + 1]
    ELSE OPCODE_NOP

\* opcodes Debugger.aaOpDescs types as TYPE_PREFIX: ES, CS, SS, DS, OS, AS, LOCK,
\* REPNZ and REPZ
PrefixOpcodes == {38, 46, 54, 62, OPCODE_OS, OPCODE_AS, 240, 242, 243}

\* the opcodes that make the CPU set OPFLAG_PREFIXES: OS and AS exist on an 80386 only
cpuPrefixes ==
    IF machine.model = 80386 THEN PrefixOpcodes
    ELSE PrefixOpcodes \ {OPCODE_OS, OPCODE_AS}

\* the bytes getModRMOperand(bModRM) reads after the ModRM byte for a 16-bit address
modRMBytes(bModRM) ==
    IF bModRM \div 64 = 0 /\ bModRM % 8 = 6 THEN 2
    ELSE IF bModRM \div 64 = 1 THEN 1
    ELSE IF bModRM \div 64 = 2 THEN 2
    ELSE 0

\* the bytes getInstruction() reads after opcode byte bOpcode at addr - 1, as
\* Debugger.aaOpDescs types the operands of the opcodes the programs hold, for
\* 16-bit operands and addresses: none (NOP, MOVSB, INT3, INTO, HLT, prefixes),
\* an 8-bit immediate or displacement (INT n, LOOPNZ, LOOPZ, LOOP, JCXZ, JMP short),
\* a 16-bit displacement (CALL, JMP), a far pointer (CALL, JMP), ModRM (GRP4W)
operandBytes(bOpcode, addr) ==
    CASE bOpcode \in {205, 224, 225, 226, 227, 235} -> 1
      [] bOpcode \in {232, 233} -> 2
      [] bOpcode \in {154, 234} -> 4
      [] bOpcode = 255 -> 1 + modRMBytes(probeAddr(addr))
      [] OTHER -> 0

\* getInstruction(): the loop over OS and AS prefixes from the byte at addr on,
\* cMax more being tolerated: the address of the opcode byte and the prefix flags
RECURSIVE skipOverrides(_, _, _, _)
\* one test of the loop, bOpcode being the byte at addr
skipOverride(addr, cMax, fDataPrefix, fAddrPrefix, bOpcode) ==
    IF bOpcode \in {OPCODE_OS, OPCODE_AS} /\ cMax > 0
    THEN skipOverrides(addr + 1, cMax - 1, fDataPrefix \/ bOpcode = OPCODE_OS,
                       fAddrPrefix \/ bOpcode = OPCODE_AS)
    ELSE [addr |-> addr, bOpcode |-> bOpcode,
          fDataPrefix |-> fDataPrefix, fAddrPrefix |-> fAddrPrefix]

skipOverrides(addr, cMax, fDataPrefix, fAddrPrefix) ==
    skipOverride(addr, cMax, fDataPrefix, fAddrPrefix, probeAddr(addr))

\* getInstruction() once the prefix loop returned p: the address past the
\* instruction, and what initAddrSize() stores in dbgAddr
decodeFrom(p) ==
    [addr |-> p.addr + 1 + operandBytes(p.bOpcode, p.addr + 1),
     cOverrides |-> (IF p.fDataPrefix THEN 1 ELSE 0) + (IF p.fAddrPrefix THEN 1 ELSE 0),
     fComplete |-> p.bOpcode \notin PrefixOpcodes]

\* getInstruction(dbgAddr) for a dbgAddr whose linear address is addr
getInstruction(addr) == decodeFrom(skipOverrides(addr, 4, FALSE, FALSE))

\* cpu.stepCPU(): regLIP after the dispatch of byte bOpcode at lip
cpuAfter(lip, bOpcode) ==
    IF bOpcode \in cpuPrefixes THEN lip + 1
    ELSE IF bOpcode \in {154, 204, 205, 206, 224, 225, 226, 227, 232, 233, 234, 235}
    THEN machine.segCS.base
    ELSE lip + 1 + operandBytes(bOpcode, lip + 1)

\* cpu.stepCPU(): regLIP after the dispatch of the byte at lip; a prefix is a
\* dispatch of its own, an interrupt, call, loop or jump leaves the program (the
\* model sends it to CS:0000)
cpuNext(lip) == cpuAfter(lip, probeAddr(lip))

\* the counters stay within the bound of the model
Bounded(s) ==
    /\ s.cInstructions <= MaxInstr
    /\ \A b \in DOMAIN s.aaOpcodeCounts : s.aaOpcodeCounts[b] <= MaxInstr

----------------------------------------------------------------------------
(* Running, stepping and stopping the CPU *)

\* addresses parseAddr() hands to doRun: F000:FFF1 and %FFFF2
RunInputs == { newAddr(ResetIP + 1, 61440, NULL), newAddr(0, NULL, 1048562) }

\* addresses parseAddr() hands to doBreak while a program is followed: %FFFF1
ExecBreakInputs == { newAddr(0, NULL, 1048561) }

\* stands for the address of a "g" command given without one
NoAddr == newAddr(NULL, NULL, NULL)

\* doRun(sAddr): "if (sAddr !== undefined) { ...; this.setTempBreakpoint(dbgAddr); }"
runBreak(s, dbgAddr) ==
    IF dbgAddr # NoAddr THEN setTempBreakpoint(s, dbgAddr) ELSE s

\* doRun "g [addr]"; fAvail is what
\* isCPUAvail() returns; cpu.runCPU() has the Computer notify start()
DoRun(dbgAddr, fAvail) ==
    /\ dbgAddr # NoAddr => NumBreaks(Dbg) < MaxBreaks
    /\ Becomes([runBreak(Dbg, dbgAddr) EXCEPT !.fRunning = IF fAvail THEN TRUE ELSE @])
    /\ ret' = [op |-> "doRun", fResult |-> fAvail]
    /\ UNCHANGED regLIP

\* the CPU stops after a checkInstruction() that returned true
Stopping == ret.op = "checkInstruction" /\ ret.fResult

\* the running CPU dispatches the byte at regLIP: it calls checkInstruction(regLIP,
\* nState) first when checksEnabled(), and executes the byte unless that returned true
Dispatch(nState, fHalt) ==
    /\ fRunning /\ ~Stopping
    /\ InProgram(regLIP)
    /\ IF checksEnabled(Dbg, FALSE)
       THEN \E r \in {checkInstruction(Dbg, regLIP, nState, probeAddr(regLIP), fHalt)} :
               /\ Bounded(r.s)
               /\ Becomes(r.s)
               /\ regLIP' = IF r.fBreak THEN regLIP ELSE cpuNext(regLIP)
               /\ ret' = [op |-> "checkInstruction", addr |-> regLIP,
                          nState |-> nState, fResult |-> r.fBreak]
       ELSE /\ Becomes(Dbg)
            /\ regLIP' = cpuNext(regLIP)
            /\ ret' = [op |-> "dispatch", fResult |-> FALSE]

\* stop(): "if (!this.fProcStep) { ... if (this.nCycles) { if (this.checksEnabled()) ..."
stopCount(s, fCycles) ==
    IF s.fProcStep = 0 /\ fCycles /\ checksEnabled(s, FALSE)
    THEN [s EXCEPT !.cInstructions = 0] ELSE s

\* stop(ms, nCycles), the Computer's notification that the CPU stopped; fCycles
\* tells whether cycles elapsed since start()
Stop(fCycles) ==
    /\ fRunning
    /\ Becomes(clearTempBreakpoint(stopCount([Dbg EXCEPT !.fRunning = FALSE], fCycles),
                                   regLIP, probeAddr(regLIP)))
    /\ ret' = [op |-> "stop", fResult |-> TRUE]
    /\ UNCHANGED regLIP

\* reset(fQuiet), the Computer's notification of a reset, which also puts the
\* CPU back at the reset address
Reset ==
    /\ Fields(clearTempBreakpoint([historyInit(Dbg) EXCEPT !.cInstructions = 0,
                                                           !.fRunning = FALSE],
                                  NULL, OPCODE_NOP))
    /\ regLIP' = CodeStart
    /\ dbgAddrNextCode' = newAddr(ResetIP, machine.segCS.sel, NULL)
    /\ UNCHANGED <<machine, DEBUG, mem, dbgAddrNextData, others>>
    /\ ret' = [op |-> "reset", fResult |-> TRUE]

\* stepCPU(0): the do ... while loop from the dispatch at lip on: [s, lip]
RECURSIVE stepLoop(_, _)
\* one iteration once checkInstruction() left the state as s
stepDispatch(s, lip) ==
    IF probeAddr(lip) \in cpuPrefixes
    THEN stepLoop([s EXCEPT !.cInstructions = @ + 1], cpuNext(lip))
    ELSE [s |-> [s EXCEPT !.cInstructions = @ + 1], lip |-> cpuNext(lip)]

stepLoop(s, lip) ==
    stepDispatch(IF checksEnabled(s, FALSE)
                 THEN checkInstruction(s, lip, 0, probeAddr(lip), FALSE).s
                 ELSE s,
                 lip)

\* stepCPU(0, fRegs, fUpdateCPU), as doStep "t" calls it with the CPU available
StepCPU ==
    /\ ~fRunning
    /\ InProgram(regLIP)
    /\ \E r \in {stepLoop(Dbg, regLIP)} :
          /\ Bounded(r.s)
          /\ Becomes(r.s)
          /\ regLIP' = r.lip
    /\ ret' = [op |-> "stepCPU", fResult |-> TRUE]

\* the programs without prefixes
PlainPrograms(m) == { p \in Programs(m) : \A i \in 1..MaxProg : p[i] \notin PrefixOpcodes }

\* a real-mode 8086 or 80286 at its reset address, the program holding no prefix
InitExec == InitWith(PlainPrograms) /\ machine.model # 80386 /\ ~machine.fProtMode

NextExec ==
    \/ \E a \in RunInputs \cup {NoAddr}, fAvail \in BOOLEAN : DoRun(a, fAvail)
    \/ \E nState \in {0, 1}, fHalt \in BOOLEAN : Dispatch(nState, fHalt)
    \/ \E fCycles \in BOOLEAN : Stop(fCycles)
    \/ Reset
    \/ \E a \in ExecBreakInputs : DoBreakSet("exec", a)
    \/ \E m \in {MSG_INT, MSG_HALT}, fOn \in BOOLEAN : DoMessages(m, fOn)

\* the CPU running a program to temporary and permanent exec breakpoints
SpecExec == InitExec /\ [][NextExec]_vars

----------------------------------------------------------------------------
(* History playback *)

\* dumpHistory(): "cLines = cLines || 10"
DumpLines == 10

\* dumpHistory(): the line printed for the slot at JS index i, d being what
\* getInstruction() decoded at the slot's address
historyLine(s, i, d) ==
    [slot |-> i, addr |-> s.aOpcodeHistory[i + 1].addr, end |-> d.addr,
     cOverrides |-> d.cOverrides]

\* dumpHistory(): "if (iHistory >= aHistory.length) iHistory = 0;"
historyWrap(s, iHistory) == IF iHistory >= Len(s.aOpcodeHistory) THEN 0 ELSE iHistory

\* dumpHistory(): the while loop, iHistory being the JS index of the next slot
\* read and lines the lines printed so far
RECURSIVE dumpLoop(_, _, _, _)
\* one iteration for a slot that holds an address, d being its decoded instruction
dumpSlot(s, iHistory, cLines, lines, d) ==
    dumpLoop(s, historyWrap(s, (iHistory + 1) + d.cOverrides),
             (cLines - d.cOverrides) - 1,
             Append(lines, historyLine(s, iHistory, d)))

dumpLoop(s, iHistory, cLines, lines) ==
    IF cLines > 0 /\ iHistory # s.iOpcodeHistory
    THEN IF s.aOpcodeHistory[iHistory + 1].sel = NULL THEN lines
         ELSE dumpSlot(s, iHistory, cLines, lines,
                       getInstruction(s.aOpcodeHistory[iHistory + 1].addr))
    ELSE lines

\* dumpHistory(): the slot to start at, n being the number of instructions to
\* rewind; the slots are objects, so "aHistory[aHistory.length - 1][1] != null"
\* is false and a negative index restarts at slot 0
dumpStart(s, n) ==
    IF s.iOpcodeHistory - n < 0 THEN 0 ELSE s.iOpcodeHistory - n

\* dumpHistory(): "if (n > aHistory.length) { ...; n = aHistory.length; }" and the
\* slot playback starts at
dumpFrom(s, sCount) ==
    dumpStart(s, IF sCount > Len(s.aOpcodeHistory) THEN Len(s.aOpcodeHistory) ELSE sCount)

\* dumpHistory(sCount, cLines): the lines printed
dumpHistory(s, sCount, cLines) ==
    IF Len(s.aOpcodeHistory) > 0
    THEN dumpLoop(s, dumpFrom(s, sCount), cLines, <<>>)
    ELSE <<>>

\* "dh n": dumpHistory(n) prints the history; the Debugger's fields modelled stay
\* as they are
DumpHistory(sCount) ==
    /\ ret' = [op |-> "dumpHistory", fResult |-> TRUE, n |-> sCount,
               start |-> IF Len(aOpcodeHistory) > 0 THEN dumpFrom(Dbg, sCount) ELSE NULL,
               lines |-> dumpHistory(Dbg, sCount, DumpLines)]
    /\ UNCHANGED <<machine, DEBUG, bitsMessage, aBreakExec, aBreakRead, aBreakWrite,
                   nSuppressBreaks, memBreaks, aOpcodeHistory, iOpcodeHistory,
                   aaOpcodeCounts, cInstructions, fProcStep, fRunning, mem, regLIP,
                   dbgAddrNextData, dbgAddrNextCode, others>>

InitHist == InitWith(Programs)

NextHist ==
    \/ \E fAvail \in BOOLEAN : DoRun(NoAddr, fAvail)
    \/ \E nState \in {0, 1}, fHalt \in BOOLEAN : Dispatch(nState, fHalt)
    \/ \E fCycles \in BOOLEAN : Stop(fCycles)
    \/ Reset
    \/ StepCPU
    \/ \E n \in 1..HistoryLimit : DumpHistory(n)
    \/ \E fOn \in BOOLEAN : DoMessages(MSG_INT, fOn)

\* the CPU running and stepping through a program while its dispatches are recorded
SpecHist == InitHist /\ [][NextHist]_vars

----------------------------------------------------------------------------
(* Step-over *)

\* the opcodes doProcStep() skips as prefixes: ES, CS, SS, DS, FS, GS, OS, AS, LOCK
StepPrefixes == {38, 46, 54, 62, 100, 101, OPCODE_OS, OPCODE_AS, 240}

\* the string opcodes of doProcStep(): INSB to OUTSW, MOVSB to CMPSW, STOSB to SCASW
StringOpcodes == (108..111) \cup (164..167) \cup (170..175)

\* doProcStep(): a string opcode at addr, stepped over whether or not a repeat
\* prefix came before
stringStep_AnyString(addr, fRepeat) == [fProcStep |-> TRUE, addr |-> addr + 1]

\* doProcStep(): "if (fRepeat) { this.fProcStep = fProcStep; this.incAddr(dbgAddr, 1); }"
stringStep(addr, fRepeat) ==
    IF fRepeat THEN [fProcStep |-> TRUE, addr |-> addr + 1]
    ELSE [fProcStep |-> FALSE, addr |-> addr]

\* doProcStep(): case GRP4W, bModRM being the high byte of getWord(dbgAddr):
\* "w = getWord(dbgAddr) & CALLMASK; if (w == CALLW || w == CALLFDW)"
grp4Step(addr, bModRM) ==
    IF (bModRM \div 8) % 8 \in {2, 3}
    THEN [fProcStep |-> TRUE, addr |-> getInstruction(addr).addr]
    ELSE [fProcStep |-> FALSE, addr |-> addr]

\* doProcStep(): the do ... while (fPrefix) loop from the byte at addr on: whether
\* this.fProcStep was set, and the linear address dbgAddr has reached
RECURSIVE procLoop(_, _)
\* the switch on bOpcode, the byte at addr
procSwitch(addr, fRepeat, bOpcode) ==
    CASE bOpcode \in StepPrefixes -> procLoop(addr + 1, fRepeat)
      [] bOpcode \in {204, 206} -> [fProcStep |-> TRUE, addr |-> addr + 1]
      [] bOpcode \in {205, 224, 225, 226} -> [fProcStep |-> TRUE, addr |-> addr + 2]
      [] bOpcode = 232 -> [fProcStep |-> TRUE, addr |-> addr + 3]
      [] bOpcode = 154 -> [fProcStep |-> TRUE, addr |-> addr + 5]
      [] bOpcode = 255 -> grp4Step(addr, probeAddr(addr + 1))
      [] bOpcode \in {242, 243} -> procLoop(addr + 1, TRUE)
      [] bOpcode \in StringOpcodes -> stringStep(addr, fRepeat)
      [] OTHER -> [fProcStep |-> FALSE, addr |-> addr]

procLoop(addr, fRepeat) == procSwitch(addr, fRepeat, probeAddr(addr))

\* the dbgAddr doProcStep() made with newAddr(cpu.getIP(), cpu.getCS()) once
\* getByte() and incAddr() have taken it to linear address addr
codeAddr(addr) == newAddr(addr - machine.segCS.base, machine.segCS.sel, addr)

\* doProcStep(): "this.setTempBreakpoint(dbgAddr); if (!this.runCPU()) { ...;
\* this.fProcStep = 0; }", cpu.runCPU() having the Computer notify start()
procRun(s, addr, fAvail) ==
    [setTempBreakpoint(s, codeAddr(addr)) EXCEPT
        !.fProcStep = IF fAvail THEN @ ELSE 0,
        !.fRunning = IF fAvail THEN TRUE ELSE @]

\* doProcStep(): what follows the loop, p being what the loop returned: [s, lip]
procDone(s, lip, p, fRegs, fAvail) ==
    IF p.fProcStep
    THEN [s |-> procRun([s EXCEPT !.fProcStep = 1 + fRegs], p.addr, fAvail), lip |-> lip]
    ELSE IF fAvail THEN stepLoop(s, lip)
    ELSE [s |-> s, lip |-> lip]

\* doProcStep "p" (fRegs = 0) or "pr" (fRegs = 1); fAvail is what isCPUAvail()
\* returns to runCPU() or to the stepCPU(0) of doStep "t"
DoProcStep(fRegs, fAvail) ==
    /\ NumBreaks(Dbg) < MaxBreaks
    /\ IF fProcStep = 0
       THEN \E p \in {procLoop(regLIP, FALSE)} :
               /\ \E r \in {procDone(Dbg, regLIP, p, fRegs, fAvail)} :
                     /\ Bounded(r.s)
                     /\ Becomes(r.s)
                     /\ regLIP' = r.lip
               /\ ret' = [op |-> "doProcStep", fResult |-> TRUE, addr |-> regLIP,
                          fRegs |-> fRegs, fAvail |-> fAvail,
                          addrTemp |-> IF p.fProcStep THEN p.addr ELSE NULL,
                          fRun |-> p.fProcStep, fStep |-> ~p.fProcStep]
       ELSE /\ Becomes(Dbg)
            /\ UNCHANGED regLIP
            /\ ret' = [op |-> "doProcStep", fResult |-> FALSE, addr |-> regLIP,
                       fRegs |-> fRegs, fAvail |-> fAvail,
                       addrTemp |-> NULL, fRun |-> FALSE, fStep |-> FALSE]

\* the instructions found at CS:FFF0 when a step-over is asked for, each program
\* being one instruction of 16-bit code: NOP, INT3, INTO, INT 21, CALL near,
\* CALL far, CALL [0100], CALL [BX+SI+04], CALL AX, CALL FAR [BX], INC WORD [0100],
\* JMP AX, REP MOVSB, MOVSB, REP ES: MOVSB, REPNZ SCASB, REP NOP, LOOP, LOOPZ,
\* LOOPNZ, JCXZ, JMP short, JMP near, LOCK NOP, CS: CALL near, ES: INT3
StepPrograms(m) ==
    { <<144>>, <<204>>, <<206>>, <<205, 33>>, <<232, 0, 1>>, <<154, 0, 0, 0, 240>>,
      <<255, 22, 0, 1>>, <<255, 80, 4>>, <<255, 208>>, <<255, 31>>,
      <<255, 6, 0, 1>>, <<255, 224>>, <<243, 164>>, <<164>>, <<243, 38, 164>>,
      <<242, 174>>, <<243, 144>>, <<226, 254>>, <<225, 254>>, <<224, 254>>,
      <<227, 254>>, <<235, 254>>, <<233, 0, 1>>, <<240, 144>>, <<46, 232, 0, 1>>,
      <<38, 204>> }

InitStep == InitWith(StepPrograms)

NextStep ==
    \/ \E fRegs \in {0, 1}, fAvail \in BOOLEAN : DoProcStep(fRegs, fAvail)
    \/ \E fCycles \in BOOLEAN : Stop(fCycles)
    \/ Reset
    \/ \E a \in ExecBreakInputs : DoBreakSet("exec", a)

\* stepping over the instruction at the reset address
SpecStep == InitStep /\ [][NextStep]_vars

----------------------------------------------------------------------------
(* Address helpers: getAddr with a size, checkLimit, incAddr, getByte,
   getShort, getLong, setByte, setShort *)

\* largest offset, and largest distance from an address a command gave, that the
\* model follows an advancing address to
MaxOff == 6

\* seg.addrMask: 0xffff for a 16-bit segment and 0xffffffff (-1 as a 32-bit
\* integer) for a 32-bit one
addrMask(seg) == IF seg.addrSize = 4 THEN -1 ELSE 65535

\* seg.checkWrite(off, nb, true): as checkRead, the code segment of protected
\* mode not being writable
checkWrite(seg, off, nb) ==
    IF machine.fProtMode /\ seg.sel = machine.segCS.sel THEN ADDR_INVALID
    ELSE IF off >= 0 /\ off + nb <= seg.offMax THEN seg.base + off ELSE ADDR_INVALID

\* getAddr(): "if (seg) { addr = seg.checkRead / checkWrite(dbgAddr.off, nb || 1, true);
\* dbgAddr.addr = addr; }"
getAddrSeg(dbgAddr, seg, fWrite, nb) ==
    IF seg.ok
    THEN With(IF fWrite THEN checkWrite(seg, dbgAddr.off, nb)
              ELSE checkRead(seg, dbgAddr.off, nb),
              LAMBDA addr : <<addr, [dbgAddr EXCEPT !.addr = addr]>>)
    ELSE <<ADDR_INVALID, dbgAddr>>

\* getAddr(dbgAddr, fWrite, nb): <<linear address, dbgAddr with the address cached>>
getAddrFor(dbgAddr, fWrite, nb, nSuppress) ==
    IF dbgAddr.addr # NULL THEN <<dbgAddr.addr, dbgAddr>>
    ELSE getAddrSeg(dbgAddr, getSegment(dbgAddr.sel, nSuppress), fWrite, nb)

\* checkLimit(): "if ((dbgAddr.off >>> 0) >= seg.offMax) { dbgAddr.off = 0;
\* dbgAddr.addr = null; }", off being dbgAddr.off & seg.addrMask
checkLimitOff(dbgAddr, seg, off) ==
    IF off >= seg.offMax THEN [dbgAddr EXCEPT !.off = 0, !.addr = NULL]
    ELSE [dbgAddr EXCEPT !.off = off]

\* checkLimit(): "if (seg) { dbgAddr.off &= seg.addrMask; ..."
checkLimitSeg(dbgAddr, seg) ==
    IF seg.ok
    THEN checkLimitOff(dbgAddr, seg, IF addrMask(seg) = -1 THEN dbgAddr.off
                                     ELSE dbgAddr.off % (addrMask(seg) + 1))
    ELSE dbgAddr

\* checkLimit(dbgAddr)
checkLimit(dbgAddr, nSuppress) ==
    IF dbgAddr.sel # NULL THEN checkLimitSeg(dbgAddr, getSegment(dbgAddr.sel, nSuppress))
    ELSE dbgAddr

\* incAddr(dbgAddr, inc), inc being 1 or more
incAddr(dbgAddr, inc, nSuppress) ==
    IF dbgAddr.sel # NULL
    THEN checkLimit([dbgAddr EXCEPT !.addr = IF @ # NULL THEN @ + inc ELSE @,
                                    !.off = @ + inc], nSuppress)
    ELSE [dbgAddr EXCEPT !.addr = IF @ # NULL THEN @ + inc ELSE @]

\* the value of nb bytes of memory from linear address addr on, least significant
\* byte first, a 32-bit value being signed as JavaScript's | leaves it
probeValue(addr, nb) ==
    IF nb = 1 THEN probeAddr(addr)
    ELSE IF nb = 2 THEN probeAddr(addr) + 256 * probeAddr(addr + 1)
    ELSE probeAddr(addr) + 256 * probeAddr(addr + 1) + 65536 * probeAddr(addr + 2)
         + 16777216 * (IF probeAddr(addr + 3) >= 128 THEN probeAddr(addr + 3) - 256
                       ELSE probeAddr(addr + 3))

\* the initial value of getByte() (0xff), getShort() (0xffff) and getLong() (-1)
noValue(nb) == IF nb = 1 THEN 255 ELSE IF nb = 2 THEN 65535 ELSE -1

\* getByte(), getShort(), getLong() advancing the address whether or not it resolved
getData_AlwaysAdvance(r, nb, inc, nSuppress) ==
    [value |-> IF r[1] # ADDR_INVALID THEN probeValue(r[1], nb) ELSE noValue(nb),
     fRead |-> r[1] # ADDR_INVALID,
     dbgAddr |-> IF inc # 0 THEN incAddr(r[2], inc, nSuppress) ELSE r[2]]

\* getByte(), getShort(), getLong() once getAddr() returned r = <<addr, dbgAddr>>:
\* the value, whether memory was read, and the address object afterwards
getData(r, nb, inc, nSuppress) ==
    IF r[1] # ADDR_INVALID
    THEN [value |-> probeValue(r[1], nb), fRead |-> TRUE,
          dbgAddr |-> IF inc # 0 THEN incAddr(r[2], inc, nSuppress) ELSE r[2]]
    ELSE [value |-> noValue(nb), fRead |-> FALSE, dbgAddr |-> r[2]]

\* getByte(dbgAddr, inc) (nb = 1), getShort(dbgAddr, inc) (nb = 2), getLong(dbgAddr, inc)
\* (nb = 4)
getBytes(dbgAddr, nb, inc, nSuppress) ==
    getData(getAddrFor(dbgAddr, FALSE, nb, nSuppress), nb, inc, nSuppress)

\* setByte(), setShort() once getAddr() returned r: the address written, or NULL,
\* and the address object afterwards
setData(r, inc, nSuppress) ==
    IF r[1] # ADDR_INVALID
    THEN [addr |-> r[1],
          dbgAddr |-> IF inc # 0 THEN incAddr(r[2], inc, nSuppress) ELSE r[2]]
    ELSE [addr |-> NULL, dbgAddr |-> r[2]]

\* setByte(dbgAddr, b, inc) (nb = 1), setShort(dbgAddr, w, inc) (nb = 2)
setBytes(dbgAddr, nb, inc, nSuppress) ==
    setData(getAddrFor(dbgAddr, TRUE, nb, nSuppress), inc, nSuppress)

\* cpu.setByte(addr, b) / cpu.setShort(addr, w): memory with the nb bytes from addr
\* on set to the bytes of v, least significant first
cpuSet(m, addr, nb, v) ==
    [i \in 1..Len(m) |->
        IF mapBreakpoint(CodeStart) + i - 1 = mapBreakpoint(addr) THEN v % 256
        ELSE IF nb = 2 /\ mapBreakpoint(CodeStart) + i - 1 = mapBreakpoint(addr + 1)
        THEN v \div 256
        ELSE m[i]]

\* addresses parseAddr() hands to the data commands: F000:FFF0, F000:FFFE,
\* F000:FFFF, 0008:FFFD, 0010:0FFE, 0020:0000 and %FFFF0
AddrInputs ==
    { newAddr(65520, 61440, NULL), newAddr(65534, 61440, NULL),
      newAddr(65535, 61440, NULL), newAddr(65533, 8, NULL),
      newAddr(4094, 16, NULL), newAddr(0, 32, NULL), newAddr(0, NULL, 1048560) }

\* the values the data commands write: a byte CC, a word 90CC
WriteValues(nb) == IF nb = 1 THEN {OPCODE_INT3} ELSE {OPCODE_INT3 + 256 * OPCODE_NOP}

\* the address has been given by a command and has moved no further than the
\* model follows it
AddrBounded(d) ==
    IF d.sel # NULL
    THEN \/ d.off <= MaxOff
         \/ \E a \in AddrInputs : a.sel = d.sel /\ d.off - a.off \in 0..MaxOff
    ELSE d.addr # NULL /\ d.addr - 1048560 \in 0..MaxOff

\* the debugger's fields stay as they are, and so does the disassembler's address
DataOnly ==
    /\ UNCHANGED <<bitsMessage, aBreakExec, aBreakRead, aBreakWrite, nSuppressBreaks,
                   memBreaks, aOpcodeHistory, iOpcodeHistory, aaOpcodeCounts,
                   cInstructions, fProcStep, fRunning, machine, DEBUG, regLIP,
                   dbgAddrNextCode, others>>

\* a data command is given an address: parseAddr() makes a new DbgAddr
DoAddr(a) ==
    /\ dbgAddrNextData' = a
    /\ ret' = [op |-> "parseAddr", fResult |-> TRUE]
    /\ DataOnly /\ UNCHANGED mem

\* incAddr(this.dbgAddrNextData, inc)
IncAddr(inc) ==
    /\ AddrBounded(dbgAddrNextData)
    /\ dbgAddrNextData' = incAddr(dbgAddrNextData, inc, nSuppressBreaks)
    /\ ret' = [op |-> "incAddr", fResult |-> TRUE, inc |-> inc, before |-> dbgAddrNextData]
    /\ DataOnly /\ UNCHANGED mem

\* getByte (nb = 1), getShort (nb = 2) or getLong (nb = 4) of this.dbgAddrNextData,
\* advancing it by nb when fAdvance
GetData(nb, fAdvance) ==
    /\ AddrBounded(dbgAddrNextData)
    /\ \E r \in {getBytes(dbgAddrNextData, nb, IF fAdvance THEN nb ELSE 0, nSuppressBreaks)} :
          /\ dbgAddrNextData' = r.dbgAddr
          /\ ret' = [op |-> "get", fResult |-> r.fRead, nb |-> nb, fAdvance |-> fAdvance,
                     value |-> r.value, before |-> dbgAddrNextData]
    /\ DataOnly /\ UNCHANGED mem

\* setByte (nb = 1) or setShort (nb = 2) of this.dbgAddrNextData
SetData(nb, v, fAdvance) ==
    /\ AddrBounded(dbgAddrNextData)
    /\ \E r \in {setBytes(dbgAddrNextData, nb, IF fAdvance THEN nb ELSE 0, nSuppressBreaks)} :
          /\ dbgAddrNextData' = r.dbgAddr
          /\ mem' = IF r.addr # NULL THEN cpuSet(mem, r.addr, nb, v) ELSE mem
          /\ ret' = [op |-> "set", fResult |-> r.addr # NULL, nb |-> nb,
                     fAdvance |-> fAdvance, addr |-> r.addr, before |-> dbgAddrNextData]
    /\ DataOnly

InitAddr == InitWith(Programs) /\ machine.model # 80386

NextAddr ==
    \/ \E a \in AddrInputs : DoAddr(a)
    \/ \E inc \in {1, 2, 4} : IncAddr(inc)
    \/ \E nb \in {1, 2, 4}, fAdvance \in BOOLEAN : GetData(nb, fAdvance)
    \/ \E nb \in {1, 2}, fAdvance \in BOOLEAN : \E v \in WriteValues(nb) :
          SetData(nb, v, fAdvance)

\* the data commands and the address they advance
SpecAddr == InitAddr /\ [][NextAddr]_vars

----------------------------------------------------------------------------
(* The disassembler's tables.  A descriptor is <<instruction ordinal, operand
   type, ...>>; an operand type is the number the code builds with |, its
   fields being size (bits 0-3), mode (4-7), implied register (8-11),
   in/out (12-13) and CPU (14-15) *)

\* Debugger.INS_NAMES: the mnemonics, JS index i at index i + 1
INS_NAMES ==
    <<"INVALID", "AAA", "AAD", "AAM", "AAS", "ADC", "ADD", "AND", "ARPL", "AS:",
      "BOUND", "BSF", "BSR", "BT", "BTC", "BTR", "BTS", "CALL", "CBW", "CLC", "CLD",
      "CLI", "CLTS", "CMC", "CMP", "CMPSB", "CMPSW", "CS:", "CWD", "DAA", "DAS", "DEC",
      "DIV", "DS:", "ENTER", "ES:", "ESC", "FADD", "FBLD", "FBSTP", "FCOM", "FCOMP",
      "FDIV", "FDIVR", "FIADD", "FICOM", "FICOMP", "FIDIV", "FIDIVR", "FILD", "FIMUL",
      "FIST", "FISTP", "FISUB", "FISUBR", "FLD", "FLDCW", "FLDENV", "FMUL", "FNSAVE",
      "FNSTCW", "FNSTENV", "FNSTSW", "FRSTOR", "FS:", "FST", "FSTP", "FSUB", "FSUBR",
      "GS:", "HLT", "IDIV", "IMUL", "IN", "INC", "INS", "INT", "INT3", "INTO", "IRET",
      "JBE", "JC", "JCXZ", "JG", "JGE", "JL", "JLE", "JMP", "JA", "JNC", "JNO", "JNP",
      "JNS", "JNZ", "JO", "JP", "JS", "JZ", "LAHF", "LAR", "LDS", "LEA", "LEAVE",
      "LES", "LFS", "LGDT", "LGS", "LIDT", "LLDT", "LMSW", "LOADALL", "LOCK", "LODSB",
      "LODSW", "LOOP", "LOOPNZ", "LOOPZ", "LSL", "LSS", "LTR", "MOV", "MOVSB", "MOVSW",
      "MOVSX", "MOVZX", "MUL", "NEG", "NOP", "NOT", "OR", "OS:", "OUT", "OUTS", "POP",
      "POPA", "POPF", "PUSH", "PUSHA", "PUSHF", "RCL", "RCR", "REPNZ", "REPZ", "RET",
      "RETF", "ROL", "ROR", "SAHF", "SALC", "SAR", "SBB", "SCASB", "SCASW", "SETBE",
      "SETC", "SETG", "SETGE", "SETL", "SETLE", "SETNBE", "SETNC", "SETNO", "SETNP",
      "SETNS", "SETNZ", "SETO", "SETP", "SETS", "SETZ", "SGDT", "SHL", "SHLD", "SHR",
      "SHRD", "SIDT", "SLDT", "SMSW", "SS:", "STC", "STD", "STI", "STOSB", "STOSW",
      "STR", "SUB", "TEST", "VERR", "VERW", "WAIT", "XCHG", "XLAT", "XOR">>

\* Debugger.REGS, null being the empty string
REGS ==
    <<"AL", "CL", "DL", "BL", "AH", "CH", "DH", "BH", "AX", "CX", "DX", "BX", "SP",
      "BP", "SI", "DI", "ES", "CS", "SS", "DS", "FS", "GS", "IP", "PS", "EAX", "ECX",
      "EDX", "EBX", "ESP", "EBP", "ESI", "EDI", "CR0", "CR1", "CR2", "CR3", "", "", "",
      "", "DR0", "DR1", "DR2", "DR3", "", "", "DR6", "DR7", "", "", "", "", "", "",
      "TR6", "TR7", "EIP">>

\* Debugger.RMS
RMS ==
    <<"BX+SI", "BX+DI", "BP+SI", "BP+DI", "SI", "DI", "BP", "BX", "EAX", "ECX", "EDX",
      "EBX", "ESP", "EBP", "ESI", "EDI">>

\* Debugger.CPUS
CPUS == <<8086, 80186, 80286, 80386>>

\* Debugger.aOpDescPopCS, Debugger.aOpDescUndefined, Debugger.aOpDesc0F
aOpDescPopCS == <<133, 8563>>
aOpDescUndefined == <<0, 0>>
aOpDesc0F == <<205, 12291>>

\* Debugger.aaOpDescs: the descriptor of opcode b at index b + 1, sixteen
\* opcodes to a group
aaOpDescs ==
    <<
    \* 0x00 - 0x0F
      <<6, 12417, 4273>>, <<6, 12420, 4276>>, <<6, 12465, 4225>>, <<6, 12468, 4228>>,
      <<6, 12385, 4097>>, <<6, 14436, 4100>>, <<136, 4211>>, <<133, 8307>>,
      <<129, 12417, 4273>>, <<129, 12420, 4276>>, <<129, 12465, 4225>>,
      <<129, 12468, 4228>>, <<129, 12385, 4097>>, <<129, 14436, 4100>>, <<136, 4467>>,
      <<133, 8563>>,
    \* 0x10 - 0x1F
      <<5, 12417, 4273>>, <<5, 12420, 4276>>, <<5, 12465, 4225>>, <<5, 12468, 4228>>,
      <<5, 12385, 4097>>, <<5, 14436, 4100>>, <<136, 4723>>, <<133, 8819>>,
      <<150, 12417, 4273>>, <<150, 12420, 4276>>, <<150, 12465, 4225>>,
      <<150, 12468, 4228>>, <<150, 12385, 4097>>, <<150, 14436, 4100>>, <<136, 4979>>,
      <<133, 9075>>,
    \* 0x20 - 0x2F
      <<7, 12417, 4273>>, <<7, 12420, 4276>>, <<7, 12465, 4225>>, <<7, 12468, 4228>>,
      <<7, 12385, 4097>>, <<7, 14436, 4100>>, <<35, 15>>, <<29>>, <<184, 12417, 4273>>,
      <<184, 12420, 4276>>, <<184, 12465, 4225>>, <<184, 12468, 4228>>,
      <<184, 12385, 4097>>, <<184, 14436, 4100>>, <<27, 15>>, <<30>>,
    \* 0x30 - 0x3F
      <<191, 12417, 4273>>, <<191, 12420, 4276>>, <<191, 12465, 4225>>,
      <<191, 12468, 4228>>, <<191, 12385, 4097>>, <<191, 14436, 4100>>, <<177, 15>>,
      <<1>>, <<24, 4225, 4273>>, <<24, 4228, 4276>>, <<24, 4273, 4225>>,
      <<24, 4276, 4228>>, <<24, 4193, 4097>>, <<24, 6244, 4100>>, <<33, 15>>, <<4>>,
    \* 0x40 - 0x4F
      <<74, 14436>>, <<74, 14692>>, <<74, 14948>>, <<74, 15204>>, <<74, 15460>>,
      <<74, 15716>>, <<74, 15972>>, <<74, 16228>>, <<31, 14436>>, <<31, 14692>>,
      <<31, 14948>>, <<31, 15204>>, <<31, 15460>>, <<31, 15716>>, <<31, 15972>>,
      <<31, 16228>>,
    \* 0x50 - 0x5F
      <<136, 6244>>, <<136, 6500>>, <<136, 6756>>, <<136, 7012>>, <<136, 7268>>,
      <<136, 7524>>, <<136, 7780>>, <<136, 8036>>, <<133, 10340>>, <<133, 10596>>,
      <<133, 10852>>, <<133, 11108>>, <<133, 11364>>, <<133, 11620>>, <<133, 11876>>,
      <<133, 12132>>,
    \* 0x60 - 0x6F
      <<137, 32768>>, <<134, 32768>>, <<10, 37044, 4232>>, <<8, 8323, 4275>>,
      <<64, 49167>>, <<69, 49167>>, <<130, 49167>>, <<9, 49167>>, <<136, 36868>>,
      <<72, 45235, 4235>>, <<136, 36866>>, <<72, 45235, 4234>>, <<75, 41041, 6756>>,
      <<75, 41044, 6756>>, <<132, 39524, 4161>>, <<132, 39524, 4164>>,
    \* 0x70 - 0x7F
      <<94, 4145>>, <<90, 4145>>, <<81, 4145>>, <<89, 4145>>, <<97, 4145>>,
      <<93, 4145>>, <<80, 4145>>, <<88, 4145>>, <<96, 4145>>, <<92, 4145>>,
      <<95, 4145>>, <<91, 4145>>, <<85, 4145>>, <<84, 4145>>, <<86, 4145>>,
      <<83, 4145>>,
    \* 0x80 - 0x8F
      <<192, 12417, 4097>>, <<193, 12420, 4100>>, <<192, 12417, 4097>>,
      <<194, 12420, 4097>>, <<185, 4225, 4273>>, <<185, 4228, 4276>>,
      <<189, 12465, 12417>>, <<189, 12468, 12420>>, <<120, 8321, 4273>>,
      <<120, 8324, 4276>>, <<120, 8369, 4225>>, <<120, 8372, 4228>>,
      <<120, 8324, 4291>>, <<101, 8372, 148>>, <<120, 8387, 4228>>, <<133, 8324>>,
    \* 0x90 - 0x9F
      <<127>>, <<189, 14436, 14692>>, <<189, 14436, 14948>>, <<189, 14436, 15204>>,
      <<189, 14436, 15460>>, <<189, 14436, 15716>>, <<189, 14436, 15972>>,
      <<189, 14436, 16228>>, <<18>>, <<28>>, <<17, 4103>>, <<188>>, <<138>>, <<135>>,
      <<147>>, <<98>>,
    \* 0xA0 - 0xAF
      <<120, 8289, 4129>>, <<120, 10340, 4132>>, <<120, 8225, 4193>>,
      <<120, 8228, 6244>>, <<121, 8273, 4161>>, <<122, 8276, 4164>>,
      <<25, 4177, 4161>>, <<26, 4180, 4164>>, <<185, 4193, 4097>>, <<185, 6244, 4100>>,
      <<181, 8273, 4193>>, <<182, 8276, 6244>>, <<112, 8289, 4161>>,
      <<113, 10340, 4164>>, <<151, 4193, 4177>>, <<152, 6244, 4180>>,
    \* 0xB0 - 0xBF
      <<120, 8289, 4097>>, <<120, 8545, 4097>>, <<120, 8801, 4097>>,
      <<120, 9057, 4097>>, <<120, 9313, 4097>>, <<120, 9569, 4097>>,
      <<120, 9825, 4097>>, <<120, 10081, 4097>>, <<120, 10340, 4100>>,
      <<120, 10596, 4100>>, <<120, 10852, 4100>>, <<120, 11108, 4100>>,
      <<120, 11364, 4100>>, <<120, 11620, 4100>>, <<120, 11876, 4100>>,
      <<120, 12132, 4100>>,
    \* 0xC0 - 0xCF
      <<195, 28801, 4097>>, <<196, 28804, 4097>>, <<143, 4099>>, <<143>>,
      <<103, 8372, 4246>>, <<100, 8372, 4246>>, <<120, 8321, 4097>>,
      <<120, 8324, 4100>>, <<34, 36867, 4097>>, <<102, 32768>>, <<144, 4099>>, <<144>>,
      <<77>>, <<76, 4097>>, <<78>>, <<79>>,
    \* 0xD0 - 0xDF
      <<197, 12417, 4113>>, <<198, 12420, 4113>>, <<199, 12417, 4449>>,
      <<200, 12420, 4449>>, <<3, 1>>, <<2, 1>>, <<148>>, <<190>>, <<36, 4228>>,
      <<36, 4228>>, <<36, 4228>>, <<36, 4228>>, <<36, 4228>>, <<36, 4228>>,
      <<36, 4228>>, <<36, 4228>>,
    \* 0xE0 - 0xEF
      <<115, 4145>>, <<116, 4145>>, <<114, 4145>>, <<82, 4145>>, <<73, 8289, 4097>>,
      <<73, 10340, 4097>>, <<131, 4097, 4193>>, <<131, 4097, 6244>>, <<17, 4148>>,
      <<87, 4148>>, <<87, 4103>>, <<87, 4145>>, <<73, 8289, 6756>>,
      <<73, 10340, 6756>>, <<131, 6756, 4193>>, <<131, 6756, 6244>>,
    \* 0xF0 - 0xFF
      <<111, 15>>, <<0>>, <<141, 15>>, <<142, 15>>, <<70>>, <<23>>, <<201, 12417>>,
      <<202, 12420>>, <<19>>, <<178>>, <<21>>, <<180>>, <<20>>, <<179>>,
      <<203, 12417>>, <<204, 12420>>
    >>

\* the second opcode bytes Debugger.aaOp0FDescs has a descriptor for
Op0FBytes ==
    {0, 1, 2, 3, 5, 6, 32, 33, 34, 35, 36, 38, 128, 129, 130, 131, 132, 133, 134, 135,
      136, 137, 138, 139, 140, 141, 142, 143, 144, 145, 146, 147, 148, 149, 150, 151,
      152, 153, 154, 155, 156, 157, 158, 159, 160, 161, 163, 164, 165, 168, 169, 171,
      172, 173, 175, 178, 179, 180, 181, 182, 183, 186, 187, 188, 189, 190, 191}

\* Debugger.aaOp0FDescs[b] for b in Op0FBytes
aaOp0FDescs(b) ==
    CASE b = 0 -> <<206, 12419>>
      [] b = 1 -> <<207, 12419>>
      [] b = 2 -> <<99, 41139, 4243>>
      [] b = 3 -> <<117, 41139, 4243>>
      [] b = 5 -> <<110, 32768>>
      [] b = 6 -> <<22, 32768>>
      [] b = 32 -> <<120, 57509, 4309>>
      [] b = 33 -> <<120, 57509, 4325>>
      [] b = 34 -> <<120, 57557, 4261>>
      [] b = 35 -> <<120, 57573, 4261>>
      [] b = 36 -> <<120, 57509, 4341>>
      [] b = 38 -> <<120, 57589, 4261>>
      [] b = 128 -> <<94, 53300>>
      [] b = 129 -> <<90, 53300>>
      [] b = 130 -> <<81, 53300>>
      [] b = 131 -> <<89, 53300>>
      [] b = 132 -> <<97, 53300>>
      [] b = 133 -> <<93, 53300>>
      [] b = 134 -> <<80, 53300>>
      [] b = 135 -> <<88, 53300>>
      [] b = 136 -> <<96, 53300>>
      [] b = 137 -> <<92, 53300>>
      [] b = 138 -> <<95, 53300>>
      [] b = 139 -> <<91, 53300>>
      [] b = 140 -> <<85, 53300>>
      [] b = 141 -> <<84, 53300>>
      [] b = 142 -> <<86, 53300>>
      [] b = 143 -> <<83, 53300>>
      [] b = 144 -> <<165, 57473>>
      [] b = 145 -> <<161, 57473>>
      [] b = 146 -> <<154, 57473>>
      [] b = 147 -> <<160, 57473>>
      [] b = 148 -> <<168, 57473>>
      [] b = 149 -> <<164, 57473>>
      [] b = 150 -> <<153, 57473>>
      [] b = 151 -> <<159, 57473>>
      [] b = 152 -> <<167, 57473>>
      [] b = 153 -> <<163, 57473>>
      [] b = 154 -> <<166, 57473>>
      [] b = 155 -> <<162, 57473>>
      [] b = 156 -> <<157, 57473>>
      [] b = 157 -> <<156, 57473>>
      [] b = 158 -> <<158, 57473>>
      [] b = 159 -> <<155, 57473>>
      [] b = 160 -> <<136, 54387>>
      [] b = 161 -> <<133, 58483>>
      [] b = 163 -> <<13, 53380, 4276>>
      [] b = 164 -> <<171, 57476, 4276, 4097>>
      [] b = 165 -> <<171, 57476, 4276, 4449>>
      [] b = 168 -> <<136, 54643>>
      [] b = 169 -> <<133, 58739>>
      [] b = 171 -> <<16, 57476, 4276>>
      [] b = 172 -> <<173, 57476, 4276, 4097>>
      [] b = 173 -> <<173, 57476, 4276, 4449>>
      [] b = 175 -> <<72, 61572, 4276>>
      [] b = 178 -> <<118, 8372, 4246>>
      [] b = 179 -> <<15, 57476, 4276>>
      [] b = 180 -> <<104, 8372, 4246>>
      [] b = 181 -> <<106, 8372, 4246>>
      [] b = 182 -> <<124, 57524, 4225>>
      [] b = 183 -> <<124, 57525, 4227>>
      [] b = 186 -> <<208, 61572, 4097>>
      [] b = 187 -> <<14, 57476, 4276>>
      [] b = 188 -> <<11, 57524, 4228>>
      [] b = 189 -> <<12, 57524, 4228>>
      [] b = 190 -> <<123, 57524, 4225>>
      [] b = 191 -> <<123, 57525, 4227>>

\* Debugger.aaGrpDescs: the groups GRP1B ... GRP8 at index 1 ... 17, each with
\* the descriptor of reg field r at index r + 1 (the group of ordinal OP0F is empty)
aaGrpDescs ==
    <<
    \* GRP1B
      <<<<6, 12417, 4097>>, <<129, 12417, 4097>>, <<5, 12417, 4097>>,
        <<150, 12417, 4097>>, <<7, 12417, 4097>>, <<184, 12417, 4097>>,
        <<191, 12417, 4097>>, <<24, 4225, 4097>>>>,
    \* GRP1W
      <<<<6, 12420, 4100>>, <<129, 12420, 4100>>, <<5, 12420, 4100>>,
        <<150, 12420, 4100>>, <<7, 12420, 4100>>, <<184, 12420, 4100>>,
        <<191, 12420, 4100>>, <<24, 4228, 4100>>>>,
    \* GRP1SW
      <<<<6, 12420, 4098>>, <<129, 12420, 4098>>, <<5, 12420, 4098>>,
        <<150, 12420, 4098>>, <<7, 12420, 4098>>, <<184, 12420, 4098>>,
        <<191, 12420, 4098>>, <<24, 4228, 4098>>>>,
    \* GRP2B
      <<<<145, 45185, 4097>>, <<146, 45185, 4097>>, <<139, 45185, 4097>>,
        <<140, 45185, 4097>>, <<170, 45185, 4097>>, <<172, 45185, 4097>>, <<0, 0>>,
        <<149, 45185, 4097>>>>,
    \* GRP2W
      <<<<145, 45188, 4097>>, <<146, 45188, 4097>>, <<139, 45188, 4097>>,
        <<140, 45188, 4097>>, <<170, 45188, 4097>>, <<172, 45188, 4097>>, <<0, 0>>,
        <<149, 45188, 4097>>>>,
    \* GRP2B1
      <<<<145, 12417, 4113>>, <<146, 12417, 4113>>, <<139, 12417, 4113>>,
        <<140, 12417, 4113>>, <<170, 12417, 4113>>, <<172, 12417, 4113>>, <<0, 0>>,
        <<149, 12417, 4113>>>>,
    \* GRP2W1
      <<<<145, 12420, 4113>>, <<146, 12420, 4113>>, <<139, 12420, 4113>>,
        <<140, 12420, 4113>>, <<170, 12420, 4113>>, <<172, 12420, 4113>>, <<0, 0>>,
        <<149, 12420, 4113>>>>,
    \* GRP2BC
      <<<<145, 12417, 4449>>, <<146, 12417, 4449>>, <<139, 12417, 4449>>,
        <<140, 12417, 4449>>, <<170, 12417, 4449>>, <<172, 12417, 4449>>, <<0, 0>>,
        <<149, 12417, 4449>>>>,
    \* GRP2WC
      <<<<145, 12420, 4449>>, <<146, 12420, 4449>>, <<139, 12420, 4449>>,
        <<140, 12420, 4449>>, <<170, 12420, 4449>>, <<172, 12420, 4449>>, <<0, 0>>,
        <<149, 12420, 4449>>>>,
    \* GRP3B
      <<<<185, 4225, 4097>>, <<0, 0>>, <<128, 12417>>, <<126, 12417>>, <<125, 4225>>,
        <<72, 12417>>, <<32, 4225>>, <<71, 12417>>>>,
    \* GRP3W
      <<<<185, 4228, 4100>>, <<0, 0>>, <<128, 12420>>, <<126, 12420>>, <<125, 4228>>,
        <<72, 12420>>, <<32, 4228>>, <<71, 12420>>>>,
    \* GRP4B
      <<<<74, 12417>>, <<31, 12417>>, <<0, 0>>, <<0, 0>>, <<0, 0>>, <<0, 0>>, <<0, 0>>,
        <<0, 0>>>>,
    \* GRP4W
      <<<<74, 12420>>, <<31, 12420>>, <<17, 4228>>, <<17, 4231>>, <<87, 4228>>,
        <<87, 4231>>, <<136, 4228>>, <<0, 0>>>>,
    \* OP0F
      <<>>,
    \* GRP6
      <<<<175, 41091>>, <<183, 41091>>, <<108, 36995>>, <<119, 36995>>, <<186, 36995>>,
        <<187, 36995>>, <<0, 0>>, <<0, 0>>>>,
    \* GRP7
      <<<<169, 41091>>, <<174, 41091>>, <<105, 36995>>, <<107, 36995>>, <<176, 41091>>,
        <<0, 0>>, <<109, 36995>>, <<0, 0>>>>,
    \* GRP8
      <<<<0, 0>>, <<0, 0>>, <<0, 0>>, <<0, 0>>, <<13, 53380, 4097>>,
        <<16, 57476, 4097>>, <<15, 57476, 4097>>, <<14, 57476, 4097>>>>
    >>

----------------------------------------------------------------------------
(* The disassembler: getInstruction() and the operand decoders.  Each of them
   yields what it returns together with the dbgAddr it advanced; n is
   nSuppressBreaks, which getSegment() looks at *)

\* the fields of an operand type
TYPE_SIZE(type) == type % 16
TYPE_MODE(type) == ((type \div 16) % 16) * 16
TYPE_IREG(type) == (type \div 256) % 16
TYPE_CPU(type) == type \div 16384
\* type & Debugger.TYPE_BOTH is not zero
TYPE_BOTH(type) == (type \div 4096) % 4 # 0

\* operand sizes
TYPE_NONE == 0
TYPE_BYTE == 1
TYPE_SBYTE == 2
TYPE_WORD == 3
TYPE_VWORD == 4
TYPE_DWORD == 5
TYPE_FARP == 7
TYPE_2WORD == 8
TYPE_PREFIX == 15

\* operand modes
TYPE_IMM == 0
TYPE_ONE == 16
TYPE_IMMOFF == 32
TYPE_IMMREL == 48
TYPE_DSSI == 64
TYPE_ESDI == 80
TYPE_IMPREG == 96
TYPE_IMPSEG == 112
TYPE_MODRM == 128
TYPE_MODREG == 160
TYPE_SEGREG == 192
TYPE_CTLREG == 208
TYPE_DBGREG == 224
TYPE_TSTREG == 240

\* the ordinal Debugger.INS.OP0F
INS_OP0F == 205

\* str.toHex(n, cch): the low cch hexadecimal digits of n, eight by default
HexDigits == <<"0", "1", "2", "3", "4", "5", "6", "7",
               "8", "9", "A", "B", "C", "D", "E", "F">>
toHex2(n) == HexDigits[((n \div 16) % 16) + 1] \o HexDigits[(n % 16) + 1]
toHex4(n) == toHex2(n \div 256) \o toHex2(n)
toHex8(n) == toHex4(n \div 65536) \o toHex4(n)
toHex(n, cch) == IF cch = 2 THEN toHex2(n) ELSE IF cch = 4 THEN toHex4(n) ELSE toHex8(n)

\* (b << 24) >> 24: the byte b sign-extended
signByte(b) == IF b >= 128 THEN b - 256 ELSE b

\* hexOffset(off, sel, fAddr32) with a selector
hexOffset(off, sel, fAddr32) ==
    toHex(sel, 4) \o ":" \o toHex(off, IF off \div 65536 # 0 \/ fAddr32 THEN 8 ELSE 4)

\* getWord(dbgAddr, true)
getWord(dbgAddr, n) ==
    IF ~dbgAddr.fData32 THEN getBytes(dbgAddr, 2, 2, n) ELSE getBytes(dbgAddr, 4, 4, n)

\* what an operand decoder hands back: the operand and the dbgAddr
Operand(s, dbgAddr) == [s |-> s, dbgAddr |-> dbgAddr]

\* getImmOperand(): TYPE_FARP, off being what getWord() returned
getFarOperand(off, dbgAddr, n) ==
    With(getBytes(dbgAddr, 2, 2, n),
         LAMBDA r : Operand(hexOffset(off, r.value, dbgAddr.fAddr32), r.dbgAddr))

\* getImmOperand(type, dbgAddr)
getImmOperand(type, dbgAddr, n) ==
    CASE TYPE_SIZE(type) = TYPE_BYTE ->
            IF TYPE_BOTH(type)
            THEN With(getBytes(dbgAddr, 1, 1, n),
                      LAMBDA r : Operand(toHex(r.value, 2), r.dbgAddr))
            ELSE Operand(" ", dbgAddr)
      [] TYPE_SIZE(type) = TYPE_SBYTE ->
            With(getBytes(dbgAddr, 1, 1, n),
                 LAMBDA r : Operand(toHex(signByte(r.value),
                                          IF dbgAddr.fData32 THEN 8 ELSE 4), r.dbgAddr))
      [] TYPE_SIZE(type) \in {TYPE_VWORD, TYPE_2WORD} /\ dbgAddr.fData32 ->
            With(getBytes(dbgAddr, 4, 4, n),
                 LAMBDA r : Operand(toHex(r.value, 8), r.dbgAddr))
      [] TYPE_SIZE(type) \in {TYPE_VWORD, TYPE_2WORD, TYPE_WORD} /\ ~dbgAddr.fData32 ->
            With(getBytes(dbgAddr, 2, 2, n),
                 LAMBDA r : Operand(toHex(r.value, 4), r.dbgAddr))
      [] TYPE_SIZE(type) = TYPE_WORD /\ dbgAddr.fData32 ->
            With(getBytes(dbgAddr, 2, 2, n),
                 LAMBDA r : Operand(toHex(r.value, 4), r.dbgAddr))
      [] TYPE_SIZE(type) = TYPE_FARP ->
            With(getWord(dbgAddr, n),
                 LAMBDA r : getFarOperand(r.value, r.dbgAddr, n))
      [] OTHER -> Operand("imm(" \o toHex(type, 4) \o ")", dbgAddr)

\* getRegOperand(): "return Debugger.REGS[bReg]", null being the empty string
regName(bReg) == IF bReg + 1 \in DOMAIN REGS THEN REGS[bReg + 1] ELSE ""

\* getRegOperand(bReg, type, dbgAddr)
getRegOperand(bReg, type, dbgAddr) ==
    CASE TYPE_MODE(type) = TYPE_SEGREG ->
            IF bReg > 5 \/ (bReg >= 4 /\ machine.model < 80386) THEN "??"
            ELSE regName(bReg + 16)
      [] TYPE_MODE(type) = TYPE_CTLREG -> regName(bReg + 32)
      [] TYPE_MODE(type) = TYPE_DBGREG -> regName(bReg + 40)
      [] TYPE_MODE(type) = TYPE_TSTREG -> regName(bReg + 48)
      [] OTHER ->
            IF TYPE_SIZE(type) >= TYPE_WORD
            THEN regName((IF bReg < 8 THEN bReg + 8 ELSE bReg)
                         + (IF \/ TYPE_SIZE(type) = TYPE_DWORD
                               \/ TYPE_SIZE(type) = TYPE_VWORD /\ dbgAddr.fData32
                            THEN 16 ELSE 0))
            ELSE regName(bReg)

\* getSIBOperand(): the base register, the index register and its scale
sibRegs(bMod, bSIB) ==
    With(IF bMod # 0 \/ bSIB % 8 # 5 THEN RMS[(bSIB % 8) + 9] ELSE "",
         LAMBDA sOperand :
            IF (bSIB \div 8) % 8 # 4
            THEN (IF sOperand # "" THEN sOperand \o "+" ELSE "")
                 \o RMS[((bSIB \div 8) % 8) + 9]
                 \o (CASE bSIB \div 64 = 0 -> ""
                       [] bSIB \div 64 = 1 -> "*2"
                       [] bSIB \div 64 = 2 -> "*4"
                       [] bSIB \div 64 = 3 -> "*8")
            ELSE sOperand)

\* getSIBOperand(): the 32-bit displacement that stands for the base register
sibDisp(bMod, bSIB, sOperand, dbgAddr, n) ==
    IF bMod = 0 /\ bSIB % 8 = 5
    THEN With(getBytes(dbgAddr, 4, 4, n),
              LAMBDA r : Operand((IF sOperand # "" THEN sOperand \o "+" ELSE "")
                                 \o toHex(r.value, 8), r.dbgAddr))
    ELSE Operand(sOperand, dbgAddr)

\* getSIBOperand(bMod, dbgAddr)
getSIBOperand(bMod, dbgAddr, n) ==
    With(getBytes(dbgAddr, 1, 1, n),
         LAMBDA r : sibDisp(bMod, r.value, sibRegs(bMod, r.value), r.dbgAddr, n))

\* getModRMOperand(): bMod < 3, the base of the memory operand: [bMod, s, dbgAddr]
modRMBase(bMod, bRM, dbgAddr, n) ==
    IF bMod = 0 /\ ((~dbgAddr.fAddr32 /\ bRM = 6) \/ (dbgAddr.fAddr32 /\ bRM = 5))
    THEN [bMod |-> 2, s |-> "", dbgAddr |-> dbgAddr]
    ELSE IF dbgAddr.fAddr32 /\ bRM # 4
    THEN [bMod |-> bMod, s |-> RMS[bRM + 9], dbgAddr |-> dbgAddr]
    ELSE IF dbgAddr.fAddr32
    THEN With(getSIBOperand(bMod, dbgAddr, n),
              LAMBDA r : [bMod |-> bMod, s |-> IF r.s # "" THEN r.s ELSE RMS[bRM + 1],
                          dbgAddr |-> r.dbgAddr])
    ELSE [bMod |-> bMod, s |-> RMS[bRM + 1], dbgAddr |-> dbgAddr]

\* getModRMOperand() reading no displacement
modRMDisp_None(b, n) == Operand(b.s, b.dbgAddr)

\* getModRMOperand(): the displacement after the base b
modRMDisp(b, n) ==
    IF b.bMod = 1
    THEN With(getBytes(b.dbgAddr, 1, 1, n),
              LAMBDA r : Operand(IF r.value < 128 THEN b.s \o "+" \o toHex(r.value, 2)
                                 ELSE b.s \o "-" \o toHex(-signByte(r.value), 2),
                                 r.dbgAddr))
    ELSE IF b.bMod = 2
    THEN With(IF ~b.dbgAddr.fAddr32 THEN getBytes(b.dbgAddr, 2, 2, n)
              ELSE getBytes(b.dbgAddr, 4, 4, n),
              LAMBDA r : Operand((IF b.s # "" THEN b.s \o "+" ELSE "")
                                 \o toHex(r.value, IF ~b.dbgAddr.fAddr32 THEN 4 ELSE 8),
                                 r.dbgAddr))
    ELSE Operand(b.s, b.dbgAddr)

\* getModRMOperand(): the size a lone memory operand is prefixed with
modRMPrefix(type, dbgAddr) ==
    CASE TYPE_SIZE(type) = TYPE_FARP -> "FAR "
      [] TYPE_SIZE(type) = TYPE_BYTE -> "BYTE "
      [] TYPE_SIZE(type) = TYPE_WORD -> "WORD "
      [] TYPE_SIZE(type) = TYPE_VWORD /\ ~dbgAddr.fData32 -> "WORD "
      [] TYPE_SIZE(type) = TYPE_DWORD -> "DWORD "
      [] TYPE_SIZE(type) = TYPE_VWORD /\ dbgAddr.fData32 -> "DWORD "
      [] OTHER -> ""

\* getModRMOperand(bModRM, type, cOperands, dbgAddr)
getModRMOperand(bModRM, type, cOperands, dbgAddr, n) ==
    IF bModRM \div 64 < 3
    THEN With(modRMDisp(modRMBase(bModRM \div 64, bModRM % 8, dbgAddr, n), n),
              LAMBDA r : Operand((IF cOperands = 1 THEN modRMPrefix(type, dbgAddr) ELSE "")
                                 \o "[" \o r.s \o "]", r.dbgAddr))
    ELSE Operand(getRegOperand(bModRM % 8, type, dbgAddr), dbgAddr)

\* isStringIns(bOpcode): MOVSB ... CMPSW or STOSB ... SCASW
isStringIns(bOpcode) == bOpcode \in 164..167 \/ bOpcode \in 170..175

\* this.aaOpDescs[bOpcode], as initBus() set it for the CPU model
opDesc(bOpcode) ==
    IF bOpcode = 15 /\ machine.model >= 80286 THEN aOpDesc0F
    ELSE IF bOpcode = 15 /\ machine.model >= 80186 THEN aOpDescUndefined
    ELSE aaOpDescs[bOpcode + 1]

\* Debugger.aaOp0FDescs[b] without the default for a byte it has no descriptor for
op0FDesc_NoDefault(b) == IF b \in Op0FBytes THEN aaOp0FDescs(b) ELSE <<>>

\* "Debugger.aaOp0FDescs[b] || Debugger.aOpDescUndefined"
op0FDesc(b) == IF b \in Op0FBytes THEN aaOp0FDescs(b) ELSE aOpDescUndefined

\* "Debugger.aaGrpDescs[iIns - Debugger.INS_NAMES.length][(bModRM >> 3) & 0x7]",
\* <<>> standing for undefined
grpDesc(iIns, bModRM) ==
    IF iIns - Len(INS_NAMES) + 1 \in DOMAIN aaGrpDescs
    THEN IF ((bModRM \div 8) % 8) + 1 \in DOMAIN aaGrpDescs[iIns - Len(INS_NAMES) + 1]
         THEN aaGrpDescs[iIns - Len(INS_NAMES) + 1][((bModRM \div 8) % 8) + 1]
         ELSE <<>>
    ELSE <<>>

\* getInstruction(): the loop over OS and AS prefixes, bOpcode being the byte read
\* last and dbgAddr the address past it
RECURSIVE sizePrefixes(_, _, _, _, _, _)
sizePrefixes(bOpcode, dbgAddr, cMax, fDataPrefix, fAddrPrefix, n) ==
    IF bOpcode \in {OPCODE_OS, OPCODE_AS} /\ cMax > 0
    THEN With(getBytes([dbgAddr EXCEPT
                           !.fData32 = IF bOpcode = OPCODE_OS /\ ~fDataPrefix THEN ~@ ELSE @,
                           !.fAddr32 = IF bOpcode = OPCODE_AS /\ ~fAddrPrefix THEN ~@ ELSE @],
                       1, 1, n),
              LAMBDA r : sizePrefixes(r.value, r.dbgAddr, cMax - 1,
                                      fDataPrefix \/ bOpcode = OPCODE_OS,
                                      fAddrPrefix \/ bOpcode = OPCODE_AS, n))
    ELSE [bOpcode |-> bOpcode, dbgAddr |-> dbgAddr,
          fDataPrefix |-> fDataPrefix, fAddrPrefix |-> fAddrPrefix]

\* getInstruction(): the table lookups once the prefix loop returned p: the
\* descriptor (<<>> when a lookup found none), the opcode with the byte after 0F,
\* the ModRM byte (-1 when not read) and the dbgAddr
lookupGroup(aOpDesc, bOpcode, dbgAddr, n) ==
    IF aOpDesc # <<>> /\ aOpDesc[1] >= Len(INS_NAMES)
    THEN With(getBytes(dbgAddr, 1, 1, n),
              LAMBDA r : [aOpDesc |-> grpDesc(aOpDesc[1], r.value), bOpcode |-> bOpcode,
                          bModRM |-> r.value, dbgAddr |-> r.dbgAddr])
    ELSE [aOpDesc |-> aOpDesc, bOpcode |-> bOpcode, bModRM |-> -1, dbgAddr |-> dbgAddr]

lookup(bOpcode, dbgAddr, n) ==
    IF opDesc(bOpcode)[1] = INS_OP0F
    THEN With(getBytes(dbgAddr, 1, 1, n),
              LAMBDA r : lookupGroup(op0FDesc(r.value), bOpcode + 256 * r.value,
                                     r.dbgAddr, n))
    ELSE lookupGroup(opDesc(bOpcode), bOpcode, dbgAddr, n)

\* getInstruction(): the ModRM byte an operand with a ModRM mode needs
needModRM(o, n) ==
    IF o.bModRM < 0
    THEN With(getBytes(o.dbgAddr, 1, 1, n),
              LAMBDA r : [o EXCEPT !.bModRM = r.value, !.dbgAddr = r.dbgAddr])
    ELSE o

\* getInstruction(): an operand with a ModRM mode, o holding the ModRM byte
modOperand(type, cOperands, o, n) ==
    IF TYPE_MODE(type) < TYPE_MODREG
    THEN With(getModRMOperand(o.bModRM, type, cOperands, o.dbgAddr, n),
              LAMBDA r : [o EXCEPT !.sOperand = r.s, !.dbgAddr = r.dbgAddr])
    ELSE IF TYPE_MODE(type) = TYPE_MODREG
    THEN [o EXCEPT !.sOperand = getRegOperand(o.bModRM % 8, type, o.dbgAddr)]
    ELSE [o EXCEPT !.sOperand = getRegOperand((o.bModRM \div 8) % 8, type, o.dbgAddr)]

\* getInstruction(): TYPE_IMMREL, r being the displacement read; no symbols are loaded
relOperand(disp, dbgAddr) ==
    IF dbgAddr.fData32
    THEN toHex(dbgAddr.off + disp, 8)
    ELSE toHex((dbgAddr.off + disp) % 65536, 4)

\* getInstruction(): the operand of type type, in o.sOperand
operandOf(type, cOperands, o, n) ==
    CASE TYPE_MODE(type) >= TYPE_MODRM -> modOperand(type, cOperands, needModRM(o, n), n)
      [] TYPE_MODE(type) = TYPE_ONE -> [o EXCEPT !.sOperand = "1"]
      [] TYPE_MODE(type) = TYPE_IMM ->
            With(getImmOperand(type, o.dbgAddr, n),
                 LAMBDA r : [o EXCEPT !.sOperand = r.s, !.dbgAddr = r.dbgAddr])
      [] TYPE_MODE(type) = TYPE_IMMOFF ->
            With(IF ~o.dbgAddr.fAddr32 THEN getBytes(o.dbgAddr, 2, 2, n)
                 ELSE getBytes(o.dbgAddr, 4, 4, n),
                 LAMBDA r : [o EXCEPT
                               !.sOperand = "[" \o toHex(r.value,
                                               IF ~o.dbgAddr.fAddr32 THEN 4 ELSE 8) \o "]",
                               !.dbgAddr = r.dbgAddr])
      [] TYPE_MODE(type) = TYPE_IMMREL ->
            With(IF TYPE_SIZE(type) = TYPE_BYTE THEN getBytes(o.dbgAddr, 1, 1, n)
                 ELSE getWord(o.dbgAddr, n),
                 LAMBDA r : [o EXCEPT
                               !.sOperand = relOperand(IF TYPE_SIZE(type) = TYPE_BYTE
                                                       THEN signByte(r.value) ELSE r.value,
                                                       r.dbgAddr),
                               !.dbgAddr = r.dbgAddr])
      [] TYPE_MODE(type) = TYPE_IMPREG ->
            [o EXCEPT !.sOperand = getRegOperand(TYPE_IREG(type), type, o.dbgAddr)]
      [] TYPE_MODE(type) = TYPE_IMPSEG ->
            [o EXCEPT !.sOperand = getRegOperand(TYPE_IREG(type), TYPE_SEGREG, o.dbgAddr)]
      [] TYPE_MODE(type) = TYPE_DSSI -> [o EXCEPT !.sOperand = "DS:[SI]"]
      [] TYPE_MODE(type) = TYPE_ESDI -> [o EXCEPT !.sOperand = "ES:[DI]"]

\* getInstruction(): the end of one turn of the operand loop: an empty operand
\* makes the operands "INVALID" and leaves the loop
appendOperand(o) ==
    IF o.sOperand = ""
    THEN [o EXCEPT !.sOperands = "INVALID", !.fBreak = TRUE]
    ELSE [o EXCEPT !.sOperands = (IF @ # "" THEN @ \o "," ELSE "") \o o.sOperand]

\* getInstruction(): one turn of the operand loop
operandTurn(type, cOperands, o, n) ==
    IF TYPE_SIZE(type) = TYPE_NONE THEN o
    ELSE IF TYPE_SIZE(type) = TYPE_PREFIX THEN [o EXCEPT !.fNonPrefix = FALSE]
    ELSE appendOperand(operandOf(type, cOperands, [o EXCEPT !.sOperand = ""], n))

\* getInstruction(): the operand loop from iOperand on
RECURSIVE operandLoop(_, _, _, _, _)
operandLoop(aOpDesc, iOperand, cOperands, o, n) ==
    IF iOperand > cOperands \/ o.fBreak THEN o
    ELSE operandLoop(aOpDesc, iOperand + 1, cOperands,
                     operandTurn(aOpDesc[iOperand + 1], cOperands,
                                 [o EXCEPT !.typeCPU = IF @ = NULL
                                                       THEN TYPE_CPU(aOpDesc[iOperand + 1])
                                                       ELSE @], n), n)

\* "Debugger.INS_NAMES[aOpDesc[0]]", undefined being the empty string
insName(iIns) == IF iIns + 1 \in DOMAIN INS_NAMES THEN INS_NAMES[iIns + 1] ELSE ""

\* getInstruction(): "if (dbgAddr.fData32 && sOpcode.slice(-1) == 'W') sOpcode =
\* sOpcode.slice(0, -1) + 'D'" for the string instructions
stringName(bOpcode, sOpcode, dbgAddr) ==
    IF isStringIns(bOpcode) /\ dbgAddr.fData32
    THEN CASE sOpcode = "MOVSW" -> "MOVSD"
           [] sOpcode = "CMPSW" -> "CMPSD"
           [] sOpcode = "STOSW" -> "STOSD"
           [] sOpcode = "LODSW" -> "LODSD"
           [] sOpcode = "SCASW" -> "SCASD"
           [] OTHER -> sOpcode
    ELSE sOpcode

\* getInstruction(): the comment the line ends with, sComment being the caller's
\* ("" for none)
lineComment(sComment, o) ==
    IF ~o.fNonPrefix THEN ""
    ELSE IF o.typeCPU # NULL /\ machine.model < CPUS[o.typeCPU + 1]
    THEN ToString(CPUS[o.typeCPU + 1]) \o " CPU only"
    ELSE sComment

\* initAddrSize() leaving the sizes as the size prefixes set them
initAddrSize_KeepSizes(dbgAddr, fNonPrefix) == dbgAddr

\* initAddrSize(dbgAddr, fNonPrefix, cOverrides): the sizes of dbgAddr
initAddrSize(dbgAddr, fNonPrefix) ==
    IF fNonPrefix
    THEN [dbgAddr EXCEPT !.fData32 = machine.segCS.dataSize = 4,
                         !.fAddr32 = machine.segCS.addrSize = 4]
    ELSE dbgAddr

\* getInstruction(): what follows the operand loop, p being what the prefix loop
\* returned, t the table lookups and o the operand loop: the parts of the line,
\* the dbgAddr, and what initAddrSize() stores in it
lineOf(sComment, p, t, o) ==
    [fThrown |-> FALSE,
     sOpcode |-> stringName(t.bOpcode, insName(t.aOpDesc[1]), t.dbgAddr),
     sOperands |-> o.sOperands,
     sComment |-> lineComment(sComment, o),
     typeCPU |-> o.typeCPU,
     dbgAddr |-> initAddrSize(o.dbgAddr, o.fNonPrefix),
     fDataPrefix |-> p.fDataPrefix, fAddrPrefix |-> p.fAddrPrefix,
     cOverrides |-> (IF p.fDataPrefix THEN 1 ELSE 0) + (IF p.fAddrPrefix THEN 1 ELSE 0),
     fComplete |-> o.fNonPrefix]

\* getInstruction(): "aOpDesc[0]" throws when a lookup found no descriptor
thrown(p, dbgAddr) ==
    [fThrown |-> TRUE, sOpcode |-> "", sOperands |-> "", sComment |-> "",
     typeCPU |-> NULL, dbgAddr |-> dbgAddr,
     fDataPrefix |-> p.fDataPrefix, fAddrPrefix |-> p.fAddrPrefix,
     cOverrides |-> 0, fComplete |-> FALSE]

\* getInstruction(): from the table lookups t on
decodeOperands(sComment, p, t, n) ==
    IF t.aOpDesc = <<>> THEN thrown(p, t.dbgAddr)
    ELSE lineOf(sComment, p, t,
                operandLoop(t.aOpDesc, 1,
                            IF isStringIns(t.bOpcode) THEN 0 ELSE Len(t.aOpDesc) - 1,
                            [dbgAddr |-> t.dbgAddr, bModRM |-> t.bModRM, typeCPU |-> NULL,
                             fNonPrefix |-> TRUE, sOperands |-> "", sOperand |-> "",
                             fBreak |-> FALSE], n))

\* getInstruction(): from the prefix loop's result p on
decodeOpcode(sComment, p, n) ==
    decodeOperands(sComment, p, lookup(p.bOpcode, p.dbgAddr, n), n)

\* getInstruction(dbgAddr, sComment)
disassemble(dbgAddr, sComment, n) ==
    With(getBytes(dbgAddr, 1, 1, n),
         LAMBDA r : decodeOpcode(sComment,
                                 sizePrefixes(r.value, r.dbgAddr, 4, FALSE, FALSE, n), n))

----------------------------------------------------------------------------
(* The unassemble command *)

\* the machines whose code the unassemble command is given: those of Machines
\* that run real-mode code, an 80186 (1MB bus), and an 80386 in protected mode
\* whose code segment (selector 0018, at F0000) is a 32-bit one
DecodeMachines ==
    { m \in Machines : ~m.fProtMode }
    \cup
    { [model |-> 80186, maskAddrHi |-> 15, fProtMode |-> FALSE,
       segCS |-> [ok |-> TRUE, sel |-> 61440, base |-> 983040, offMax |-> 65536,
                  dataSize |-> 2, addrSize |-> 2]],
      [model |-> 80386, maskAddrHi |-> 65535, fProtMode |-> TRUE,
       segCS |-> [ok |-> TRUE, sel |-> 24, base |-> 983040, offMax |-> 65536,
                  dataSize |-> 4, addrSize |-> 4]] }

\* the values of a byte
Bytes == 0..255

\* the code found at CS:FFF0: every opcode byte with every following byte, the
\* opcodes 0F 00, 0F 01 and 0F BA with every ModRM byte, every opcode after
\* a size prefix with the ModRM bytes 05, 44 and C1, and MOV (8B) with every
\* ModRM byte and the displacement byte 04
DecodePrograms(m) ==
    { <<bOpcode, b>> : bOpcode \in Bytes, b \in Bytes }
    \cup { <<139, bModRM, 4>> : bModRM \in Bytes }
    \cup { <<15, b, bModRM>> : b \in {0, 1, 186}, bModRM \in Bytes }
    \cup { <<bPrefix, bOpcode, bModRM>> :
              bPrefix \in {OPCODE_OS, OPCODE_AS}, bOpcode \in Bytes, bModRM \in {5, 68, 193} }

\* "cb -= dbgAddr.addr - addr": an address that is null counts as 0
addrNum(addr) == IF addr = NULL THEN 0 ELSE addr

\* doUnassemble(): the loop, cb bytes and nLines lines being left, lines being
\* the lines printed; a[2] is dbgAddr once getByte(dbgAddr) resolved it. With an
\* end address nLines is negative and never 0, so an iteration that finds the
\* address unreadable and leaves it where it was is followed by the same
\* iteration for ever (fStuck)
RECURSIVE unassembleLoop(_, _, _, _, _, _)
unassembleLine(a, r, cb, nLines, lines, sComment, n) ==
    IF r.fThrown
    THEN [fThrown |-> TRUE, fStuck |-> FALSE, dbgAddr |-> a[2], lines |-> lines]
    ELSE IF /\ nLines < 0 /\ a[1] = ADDR_INVALID
            /\ r.dbgAddr.off = a[2].off /\ r.dbgAddr.addr = a[2].addr
    THEN [fThrown |-> FALSE, fStuck |-> TRUE, dbgAddr |-> r.dbgAddr,
          lines |-> Append(lines, [dbgAddr |-> a[2], ins |-> r])]
    ELSE unassembleLoop(r.dbgAddr, cb - (addrNum(r.dbgAddr.addr) - addrNum(a[2].addr)),
                        IF ~r.fComplete /\ nLines = 1 THEN 1 ELSE nLines - 1,
                        Append(lines, [dbgAddr |-> a[2], ins |-> r]), sComment, n)

unassembleLoop(dbgAddr, cb, nLines, lines, sComment, n) ==
    IF cb > 0 /\ nLines # 0
    THEN With(getAddrFor(dbgAddr, FALSE, 1, n),
              LAMBDA a : unassembleLine(a, disassemble(a[2], sComment, n),
                                        cb, nLines, lines, sComment, n))
    ELSE [fThrown |-> FALSE, fStuck |-> FALSE, dbgAddr |-> dbgAddr, lines |-> lines]

\* doUnassemble(sAddr) for one line, dbgAddr being what parseAddr() made of sAddr
doUnassemble(dbgAddr, sComment, n) ==
    unassembleLoop(initAddrSize(dbgAddr, TRUE), 256, 1, <<>>, sComment, n)

\* the debugger's fields stay as they are, and so do memory and the data address
CodeOnly ==
    /\ UNCHANGED <<bitsMessage, aBreakExec, aBreakRead, aBreakWrite, nSuppressBreaks,
                   memBreaks, aOpcodeHistory, iOpcodeHistory, aaOpcodeCounts,
                   cInstructions, fProcStep, fRunning, machine, DEBUG, regLIP,
                   dbgAddrNextData, mem, others>>

\* the command "u" with the address CS:FFF0 (fAddr) or with none, parseAddr()
\* then starting from this.dbgAddrNextCode; the code of a line is in the program
DoUnassemble(fAddr) ==
    /\ fAddr \/ (dbgAddrNextCode.sel # NULL /\ dbgAddrNextCode.addr # NULL
                 /\ InProgram(dbgAddrNextCode.addr))
    /\ \E r \in {doUnassemble(
                    checkLimit(IF fAddr THEN newAddr(ResetIP, machine.segCS.sel, NULL)
                               ELSE newAddr(dbgAddrNextCode.off, dbgAddrNextCode.sel,
                                            dbgAddrNextCode.addr), nSuppressBreaks),
                    IF fProcStep # 0 THEN "cycles" ELSE "", nSuppressBreaks)} :
          /\ dbgAddrNextCode' = IF Len(r.lines) > 0 THEN r.dbgAddr ELSE dbgAddrNextCode
          /\ ret' = [op |-> "unassemble", fResult |-> ~r.fThrown, lines |-> r.lines]
    /\ CodeOnly

\* doUnassemble(sAddr, sAddrEnd), dbgAddr and dbgAddrEnd being what parseAddr() made
\* of the two: the range is refused, or the loop runs with n = -1
doUnassembleRange(dbgAddr, dbgAddrEnd, sComment, n) ==
    IF dbgAddrEnd.off < dbgAddr.off \/ (~DEBUG /\ dbgAddrEnd.off - dbgAddr.off > 256)
    THEN [fAccepted |-> FALSE, fThrown |-> FALSE, fStuck |-> FALSE, dbgAddr |-> dbgAddr,
          lines |-> <<>>]
    ELSE With(unassembleLoop(initAddrSize(dbgAddr, TRUE), dbgAddrEnd.off - dbgAddr.off,
                             -1, <<>>, sComment, n),
              LAMBDA r : [fAccepted |-> TRUE, fThrown |-> r.fThrown, fStuck |-> r.fStuck,
                          dbgAddr |-> r.dbgAddr, lines |-> r.lines])

\* the ranges of the command "u addr addrEnd": F000:FFF0 to F000:FFF2 (the program),
\* 0028:0000 to 0028:0002 and 0028:0000 to 0008:0002 (0028 has no descriptor in
\* protected mode), 0010:0FFE to 0010:0FFF, %0-1 (the linear address -1) to
\* 0000:0002, F000:FFF1 to F000:FFF0 and F000:0000 to F000:0200 (refused)
RangeInputs ==
    { <<newAddr(ResetIP, 61440, NULL), newAddr(ResetIP + 2, 61440, NULL)>>,
      <<newAddr(0, 40, NULL), newAddr(2, 40, NULL)>>,
      <<newAddr(0, 40, NULL), newAddr(2, 8, NULL)>>,
      <<newAddr(4094, 16, NULL), newAddr(4095, 16, NULL)>>,
      <<newAddr(0, NULL, ADDR_INVALID), newAddr(2, 0, NULL)>>,
      <<newAddr(ResetIP + 1, 61440, NULL), newAddr(ResetIP, 61440, NULL)>>,
      <<newAddr(0, 61440, NULL), newAddr(512, 61440, NULL)>> }

\* the command "u addr addrEnd", d being what parseAddr() made of the two
\* addresses; a range of more than 256 bytes is followed in a release build
\* only, which refuses it
UnassembleRange(d) ==
    /\ (d[2].off - d[1].off > 256) => ~DEBUG
    /\ \E r \in {doUnassembleRange(d[1], d[2], IF fProcStep # 0 THEN "cycles" ELSE "",
                                   nSuppressBreaks)} :
          /\ dbgAddrNextCode' = IF Len(r.lines) > 0 THEN r.dbgAddr ELSE dbgAddrNextCode
          /\ ret' = [op |-> "unassembleRange", fResult |-> ~r.fThrown /\ ~r.fStuck,
                     fAccepted |-> r.fAccepted, fStuck |-> r.fStuck,
                     fReadable |-> getAddrFor(d[1], FALSE, 1, nSuppressBreaks)[1]
                                      # ADDR_INVALID,
                     cb |-> d[2].off - d[1].off, cLines |-> Len(r.lines)]
    /\ CodeOnly

DoUnassembleRange(a) ==
    UnassembleRange(<<checkLimit(a[1], nSuppressBreaks), checkLimit(a[2], nSuppressBreaks)>>)

InitDecode == InitOf(DecodeMachines, DecodePrograms) /\ ~DEBUG

NextDecode == \E fAddr \in BOOLEAN : DoUnassemble(fAddr)

\* the unassemble command over every opcode and following byte
SpecDecode == InitDecode /\ [][NextDecode]_vars

InitRange == InitOf(DecodeMachines \cup {m \in Machines : m.fProtMode}, Programs)

NextRange ==
    \/ \E a \in RangeInputs : DoUnassembleRange(a)
    \/ \E fAddr \in BOOLEAN : DoUnassemble(fAddr)

\* the unassemble command over a range of addresses
SpecRange == InitRange /\ [][NextRange]_vars

----------------------------------------------------------------------------
(* Expressions: parseExpression() and evalExpression().  An expression is
   modelled as split() and parseValue() leave it: the values vals and the
   operators ops between them, ops[i] standing between vals[i] and vals[i + 1].
   The stacks aVals and aOps are sequences whose last element is the top *)

\* the values of the expressions of the model
ExprValues == {0, 1, 2, 4, 7}

\* the largest number of binary operators of an expression
MaxOps == 3

\* the keys of Debugger.aBinOpPrecedence
BinOps == {"|", "^", "&", "-", "+", "%", "/", "*"}

\* Debugger.aBinOpPrecedence[chOp]
aBinOpPrecedence(chOp) ==
    CASE chOp = "|" -> 0
      [] chOp = "^" -> 1
      [] chOp = "&" -> 2
      [] chOp \in {"-", "+"} -> 4
      [] chOp \in {"%", "/", "*"} -> 5

\* a sequence without its last element
Pop(a) == SubSeq(a, 1, Len(a) - 1)

\* JavaScript's & | ^ on 32-bit integers; the bits of a negative number are
\* those of its two's complement
RECURSIVE BitAnd(_, _)
BitAnd(a, b) ==
    IF a = 0 \/ b = 0 THEN 0
    ELSE IF a = -1 THEN b
    ELSE IF b = -1 THEN a
    ELSE (a % 2) * (b % 2) + 2 * BitAnd(a \div 2, b \div 2)

RECURSIVE BitOr(_, _)
BitOr(a, b) ==
    IF a = 0 THEN b
    ELSE IF b = 0 THEN a
    ELSE IF a = -1 \/ b = -1 THEN -1
    ELSE (IF a % 2 = 1 \/ b % 2 = 1 THEN 1 ELSE 0) + 2 * BitOr(a \div 2, b \div 2)

BitXor(a, b) == BitOr(a, b) - BitAnd(a, b)

\* (val1 / val2) | 0: the quotient truncated towards zero
truncDiv(val1, val2) ==
    IF (val1 < 0) = (val2 < 0)
    THEN (IF val1 < 0 THEN -val1 ELSE val1) \div (IF val2 < 0 THEN -val2 ELSE val2)
    ELSE -((IF val1 < 0 THEN -val1 ELSE val1) \div (IF val2 < 0 THEN -val2 ELSE val2))

\* evalExpression(): the switch on chOp, "valNew | 0" for values within 32 bits
binOp(chOp, val1, val2) ==
    CASE chOp = "+" -> val1 + val2
      [] chOp = "-" -> val1 - val2
      [] chOp = "*" -> val1 * val2
      [] chOp = "/" -> truncDiv(val1, val2)
      [] chOp = "%" -> val1 - val2 * truncDiv(val1, val2)
      [] chOp = "&" -> BitAnd(val1, val2)
      [] chOp = "^" -> BitXor(val1, val2)
      [] chOp = "|" -> BitOr(val1, val2)

\* evalExpression(aVals, aOps, cOps), cOps being 1 or -1 (all): what it returns
\* and the stacks as it leaves them
RECURSIVE evalExpression(_, _, _)
\* one turn of the loop, chOp having been popped from aOps
evalOp(chOp, aVals, aOps, cOps) ==
    IF Len(aVals) < 2 THEN [fOK |-> FALSE, aVals |-> aVals, aOps |-> aOps]
    ELSE IF chOp \in {"/", "%"} /\ aVals[Len(aVals)] = 0
    THEN [fOK |-> FALSE, aVals |-> Pop(Pop(aVals)), aOps |-> aOps]
    ELSE evalExpression(Append(Pop(Pop(aVals)),
                               binOp(chOp, aVals[Len(aVals) - 1], aVals[Len(aVals)])),
                        aOps, cOps - 1)

evalExpression(aVals, aOps, cOps) ==
    IF cOps # 0 /\ Len(aOps) > 0 THEN evalOp(aOps[Len(aOps)], aVals, Pop(aOps), cOps)
    ELSE [fOK |-> TRUE, aVals |-> aVals, aOps |-> aOps]

\* parseExpression(): "if (aOps.length && aBinOpPrecedence[chOp] <
\* aBinOpPrecedence[aOps[aOps.length-1]]) this.evalExpression(aVals, aOps, 1)"
reduceLower(chOp, aVals, aOps) ==
    IF Len(aOps) > 0 /\ aBinOpPrecedence(chOp) < aBinOpPrecedence(aOps[Len(aOps)])
    THEN evalExpression(aVals, aOps, 1)
    ELSE [fOK |-> TRUE, aVals |-> aVals, aOps |-> aOps]

\* parseExpression(): the loop over the values from vals[i] on; fIgnored tells
\* that a reduction in the loop returned false, which the loop does not look at
RECURSIVE parseLoop(_, _, _, _, _, _)
\* the rest of a turn once the pending operator has or has not been reduced
parsePush(vals, ops, i, r, fIgnored) ==
    parseLoop(vals, ops, i + 1, r.aVals, Append(r.aOps, ops[i]), fIgnored \/ ~r.fOK)

parseLoop(vals, ops, i, aVals, aOps, fIgnored) ==
    IF i > Len(ops)
    THEN [aVals |-> Append(aVals, vals[i]), aOps |-> aOps, fIgnored |-> fIgnored]
    ELSE parsePush(vals, ops, i, reduceLower(ops[i], Append(aVals, vals[i]), aOps),
                   fIgnored)

\* parseExpression(): what follows the loop, r being what the last
\* evalExpression() returned
parseEnd(r, fIgnored) ==
    IF ~r.fOK \/ Len(r.aVals) # 1
    THEN [fDefined |-> FALSE, value |-> 0, fIgnored |-> fIgnored]
    ELSE [fDefined |-> TRUE, value |-> r.aVals[1], fIgnored |-> fIgnored]

\* parseExpression(): from the end of the loop, which left the stacks s, on
parseStacks(s) == parseEnd(evalExpression(s.aVals, s.aOps, -1), s.fIgnored)

\* parseExpression(sExp): whether it returns a value, and the value
parseExpression(vals, ops) == parseStacks(parseLoop(vals, ops, 1, <<>>, <<>>, FALSE))

\* the debugger's fields stay as they are
ExprOnly ==
    /\ UNCHANGED <<bitsMessage, aBreakExec, aBreakRead, aBreakWrite, nSuppressBreaks,
                   memBreaks, aOpcodeHistory, iOpcodeHistory, aaOpcodeCounts,
                   cInstructions, fProcStep, fRunning, machine, DEBUG, regLIP,
                   dbgAddrNextData, dbgAddrNextCode, mem, others>>

\* parseExpression() of the expression the command holds
ParseExpression ==
    /\ ret.op = "command"
    /\ \E r \in {parseExpression(ret.vals, ret.ops)} :
          ret' = [op |-> "parseExpression", fResult |-> r.fDefined, value |-> r.value,
                  fIgnored |-> r.fIgnored, vals |-> ret.vals, ops |-> ret.ops]
    /\ ExprOnly

\* a command holding an expression of one to MaxOps + 1 values has been typed
InitExpr ==
    /\ InitState({ m \in Machines : m.model = 8086 }, NoProgram)
    /\ ~DEBUG
    /\ \E k \in 0..MaxOps :
          \E vals \in [1..(k + 1) -> ExprValues], ops \in [1..k -> BinOps] :
             ret = [op |-> "command", vals |-> vals, ops |-> ops]

NextExpr == ParseExpression

\* the expression parser over every expression of up to MaxOps operators
SpecExpr == InitExpr /\ [][NextExpr]_vars

----------------------------------------------------------------------------
(* Symbol tables: addSymbols(), findSymbolAtAddr() and returnSymbol().  A table
   is [addr, size, aSymbols, aOffsetPairs]; aSymbols, an object in the code, is
   the sequence of its properties in the order "for (sSymbol in aSymbols)"
   visits them, each a record [sSymbol, o, s, a, p]; a pair of aOffsetPairs is a
   record [off, sSymbol] *)

\* largest number of symbol tables
MaxTables == 2
\* largest number of symbols of a table
MaxSymbols == 3

\* JS null or undefined where a string is expected: the name of an anonymous
\* symbol, a missing annotation
NoString == ""

\* usr.binarySearch(a, [offset], fnComparePairs): the bisection from left to
\* right (JS indices); the index of the pair found, or ~(insertion point)
RECURSIVE bisect(_, _, _, _, _)
bisect(a, offset, left, right, fFound) ==
    IF left < right
    THEN IF offset > a[((left + right) \div 2) + 1].off
         THEN bisect(a, offset, ((left + right) \div 2) + 1, right, fFound)
         ELSE bisect(a, offset, left, (left + right) \div 2,
                     offset = a[((left + right) \div 2) + 1].off)
    ELSE IF fFound THEN left ELSE -left - 1

binarySearch(a, offset) == bisect(a, offset, 0, Len(a), FALSE)

\* a.splice(i, 0, v)
Insert(a, i, v) ==
    [k \in 1..(Len(a) + 1) |-> IF k <= i THEN a[k] ELSE IF k = i + 1 THEN v ELSE a[k - 1]]

\* usr.binaryInsert(a, v, fnComparePairs), once binarySearch returned index
insertAt(a, v, index) == IF index < 0 THEN Insert(a, -index - 1, v) ELSE a

binaryInsert(a, v) == insertAt(a, v, binarySearch(a, v.off))

\* addSymbols(): "if ((dbgAddr.addr & ~0xffff) == (this.bus.nBusLimit & ~0xffff))
\* dbgAddr.addr &= 0x000fffff"
foldSymbol(addr) ==
    IF (addr \div 65536) % 65536 = machine.maskAddrHi THEN addr % 1048576 ELSE addr

\* addSymbols(): symbol['p'] of a symbol, NULL without a selector
symbolAddr(symbol, nSuppress) ==
    IF symbol.s # NULL
    THEN foldSymbol(getAddr([off |-> symbol.o, sel |-> symbol.s, addr |-> NULL],
                            nSuppress)[2].addr)
    ELSE NULL

\* addSymbols(): the loop from property i of aSymbols on, the pairs so far being
\* aOffsetPairs
RECURSIVE offsetPairs(_, _, _)
offsetPairs(aSymbols, i, aOffsetPairs) ==
    IF i > Len(aSymbols) THEN aOffsetPairs
    ELSE offsetPairs(aSymbols, i + 1,
                     binaryInsert(aOffsetPairs, [off |-> aSymbols[i].o,
                                                 sSymbol |-> aSymbols[i].sSymbol]))

\* addSymbols(addr, size, aSymbols): the table pushed
addSymbols(addr, size, aSymbols, nSuppress) ==
    [addr |-> addr, size |-> size,
     aSymbols |-> [i \in DOMAIN aSymbols |->
                      [sSymbol |-> aSymbols[i].sSymbol, o |-> aSymbols[i].o,
                       s |-> aSymbols[i].s, a |-> aSymbols[i].a,
                       p |-> symbolAddr(aSymbols[i], nSuppress)]],
     aOffsetPairs |-> offsetPairs(aSymbols, 1, <<>>)]

\* sSymbol.charAt(0) == '.'
Anonymous == {".0A", ".14", ".1E"}

\* aSymbols[sSymbol]
symbolOf(aSymbols, sSymbol) ==
    aSymbols[CHOOSE i \in DOMAIN aSymbols : aSymbols[i].sSymbol = sSymbol]

\* returnSymbol(iTable, iOffset, aSymbol): the four elements pushed on aSymbol
returnSymbol(table, iOffset) ==
    IF iOffset >= 0 /\ iOffset < Len(table.aOffsetPairs)
       /\ table.aOffsetPairs[iOffset + 1].sSymbol # NoString
    THEN [sSymbol |-> IF table.aOffsetPairs[iOffset + 1].sSymbol \in Anonymous
                      THEN NoString ELSE table.aOffsetPairs[iOffset + 1].sSymbol,
          offset |-> table.aOffsetPairs[iOffset + 1].off,
          a |-> symbolOf(table.aSymbols, table.aOffsetPairs[iOffset + 1].sSymbol).a]
    ELSE [sSymbol |-> NoString,
          offset |-> IF iOffset >= 0 /\ iOffset < Len(table.aOffsetPairs)
                     THEN table.aOffsetPairs[iOffset + 1].off ELSE 0,
          a |-> NoString]

\* findSymbolAtAddr() taking the insertion point for the preceding symbol:
\* "returnSymbol(iTable, result)" and "returnSymbol(iTable, result+1)"
symbolsAt_OneTooFar(table, result, fNearest) ==
    IF result >= 0 THEN <<returnSymbol(table, result)>>
    ELSE IF fNearest
    THEN <<returnSymbol(table, -result - 1), returnSymbol(table, (-result - 1) + 1)>>
    ELSE <<>>

\* findSymbolAtAddr(): what follows binarySearch(), which returned result
symbolsAt(table, result, fNearest) ==
    IF result >= 0 THEN <<returnSymbol(table, result)>>
    ELSE IF fNearest
    THEN <<returnSymbol(table, (-result - 1) - 1), returnSymbol(table, -result - 1)>>
    ELSE <<>>

\* findSymbolAtAddr(): the loop over the tables from table iTable (JS index) on,
\* addr being getAddr(dbgAddr)
RECURSIVE findTable(_, _, _, _, _)
findTable(aTables, iTable, dbgAddr, addr, fNearest) ==
    IF iTable >= Len(aTables) THEN <<>>
    ELSE IF addr >= aTables[iTable + 1].addr
            /\ addr < aTables[iTable + 1].addr + aTables[iTable + 1].size
    THEN symbolsAt(aTables[iTable + 1],
                   binarySearch(aTables[iTable + 1].aOffsetPairs, dbgAddr.off), fNearest)
    ELSE findTable(aTables, iTable + 1, dbgAddr, addr, fNearest)

\* findSymbolAtAddr(dbgAddr, fNearest): aSymbol, four elements of the code being
\* one record here
findSymbolAtAddr(aTables, dbgAddr, fNearest, nSuppress) ==
    findTable(aTables, 0, dbgAddr, getAddr(dbgAddr, nSuppress)[1], fNearest)

\* the regions symbols are added for: the 64KB ROM at F0000 and 4KB at 20000
SymbolRegions == { [addr |-> 983040, size |-> 65536], [addr |-> 131072, size |-> 4096] }

\* the offsets of symbols
SymbolOffsets == {10, 20, 30}

\* the names of the symbols of a table, in the order of the table's source:
\* the third is anonymous
SymbolNames == <<"A", "B", ".1E", "C">>

\* the symbols of a table: up to MaxSymbols symbols of different offsets, in any
\* order of offsets, the second symbol with an annotation
SymbolLists ==
    UNION { { [i \in 1..n |-> [sSymbol |-> SymbolNames[i], o |-> f[i], s |-> NULL,
                               a |-> IF i = 2 THEN "note" ELSE NoString]] :
              f \in { g \in [1..n -> SymbolOffsets] :
                         \A i, j \in 1..n : i # j => g[i] # g[j] } } :
            n \in 1..MaxSymbols }

\* the addresses looked up: offsets 0000, 0005, 0014, 0019 and 0023 in segments
\* F000 and 2000, and the linear address F0019
SymbolInputs ==
    { newAddr(off, sel, NULL) : off \in {0, 5, 20, 25, 35}, sel \in {61440, 8192} }
        \cup { newAddr(0, NULL, 983065) }

\* the fields of the debugger and of the machine stay as they are
SymbolsOnly ==
    /\ UNCHANGED <<bitsMessage, aBreakExec, aBreakRead, aBreakWrite, nSuppressBreaks,
                   memBreaks, aOpcodeHistory, iOpcodeHistory, aaOpcodeCounts,
                   cInstructions, fProcStep, fRunning, machine, DEBUG, regLIP,
                   dbgAddrNextData, dbgAddrNextCode, mem, typed, regs>>

\* addSymbols(addr, size, aSymbols), as a ROM calls it when its image is loaded:
\* there is one table "per ROM or other chunk of address space"
AddSymbols(region, aSymbols) ==
    /\ Len(aSymbolTable) < MaxTables
    /\ \A i \in DOMAIN aSymbolTable : aSymbolTable[i].addr # region.addr
    /\ aSymbolTable' = Append(aSymbolTable,
                              addSymbols(region.addr, region.size, aSymbols,
                                         nSuppressBreaks))
    /\ ret' = [op |-> "addSymbols", fResult |-> TRUE]
    /\ SymbolsOnly

\* findSymbolAtAddr(dbgAddr, fNearest), as doList "ln" calls it (fNearest) and
\* doUnassemble for every line (not)
FindSymbolAtAddr(dbgAddr, fNearest) ==
    /\ ret' = [op |-> "findSymbolAtAddr", fResult |-> TRUE, dbgAddr |-> dbgAddr,
               fNearest |-> fNearest,
               addr |-> getAddr(dbgAddr, nSuppressBreaks)[1],
               aSymbol |-> findSymbolAtAddr(aSymbolTable, dbgAddr, fNearest,
                                            nSuppressBreaks)]
    /\ UNCHANGED aSymbolTable
    /\ SymbolsOnly

InitSym == Init /\ ~machine.fProtMode /\ ~DEBUG

NextSym ==
    \/ \E region \in SymbolRegions, aSymbols \in SymbolLists : AddSymbols(region, aSymbols)
    \/ \E dbgAddr \in SymbolInputs, fNearest \in BOOLEAN :
          FindSymbolAtAddr(dbgAddr, fNearest)

\* symbol tables being added and looked up
SpecSym == InitSym /\ [][NextSym]_vars

----------------------------------------------------------------------------
(* The alias fold on its own *)

\* linear addresses handed to mapBreakpoint(): the ends of the first megabyte,
\* of its top 64KB and of the high memory area, those of the top 64KB of 16MB and
\* of 4GB (an address of 2^31 or more being the 32-bit integer "&" makes of
\* it), addresses in between, and the sentinel
MapInputs ==
    { 0, 1, 65535, 65536, 983039, 983040, 983045, 1048560, 1048575, 1048576,
      1114095, 2031621, 16711679, 16711680, 16711685, 16777200, 16777215,
      16777216, 33488901, 2147418112, 2147483647, -2147483647, -65537, -65536,
      -65531, -16, ADDR_INVALID }

\* findBreakpoint() and checkBreakpoint() fold an address: mapBreakpoint(addr)
MapBreakpoint(addr) ==
    /\ ret' = [op |-> "mapBreakpoint", fResult |-> TRUE, addr |-> addr,
               value |-> mapBreakpoint(addr)]
    /\ UNCHANGED <<machine, DEBUG, bitsMessage, aBreakExec, aBreakRead, aBreakWrite,
                   nSuppressBreaks, memBreaks, aOpcodeHistory, iOpcodeHistory,
                   aaOpcodeCounts, cInstructions, fProcStep, fRunning, mem, regLIP,
                   dbgAddrNextData, dbgAddrNextCode, others>>

NextMap == \E addr \in MapInputs : MapBreakpoint(addr)

\* addresses being folded on every machine
SpecMap == Init /\ [][NextMap]_vars

----------------------------------------------------------------------------
(* The command line and the saved state: parseCommand with fSave, doDump,
   doAssemble, save, restore and powerUp *)

\* longest command history the model follows
MaxCmds == 3

\* the bytes doDump() prints on a line
DumpBytes == 16

\* packAddr(dbgAddr): "[dbgAddr.off, dbgAddr.sel, dbgAddr.addr, dbgAddr.fTempBreak,
\* dbgAddr.fData32, dbgAddr.fAddr32, ...]"
packAddr(dbgAddr) ==
    <<dbgAddr.off, dbgAddr.sel, dbgAddr.addr, dbgAddr.fTempBreak, dbgAddr.fData32,
      dbgAddr.fAddr32>>

\* unpackAddr(aAddr)
unpackAddr(aAddr) ==
    [off |-> aAddr[1], sel |-> aAddr[2], addr |-> aAddr[3], fTempBreak |-> aAddr[4],
     fData32 |-> aAddr[5], fAddr32 |-> aAddr[6]]

\* save(): state.set(0, ...), state.set(1, ...), state.set(2, ...)
save ==
    <<packAddr(dbgAddrNextCode), packAddr(dbgAddrAssemble),
      <<aPrevCmds, fAssemble, bitsMessage>>>>

\* restore(): "if (!this.bitsMessage) { this.bitsMessage = data[i][2]; }"
restoreBits(bits, saved) == IF bits = {} THEN saved ELSE bits

\* parseCommand(sCmd, true) of a command line that is not empty:
\* <<aPrevCmds, iPrevCmd>> afterwards
parseSaved(a, i, sCmd) ==
    IF i < 0 \/ sCmd # a[i + 1] THEN <<(<<sCmd>> \o a), -1>>
    ELSE <<a, i - 1>>

\* "if (this.iPrevCmd < 0 && this.aPrevCmds.length) { this.iPrevCmd = 0; }"
parseCommand(a, i, sCmd) ==
    parseSaved(a, IF i < 0 /\ Len(a) > 0 THEN 0 ELSE i, sCmd)

\* doDump(): "for (var i = 0; i < 16; i++) { var b = this.getByte(dbgAddr, 1); ..."
RECURSIVE dumpLine(_, _, _)
dumpLine(dbgAddr, n, nSuppress) ==
    IF n = 0 THEN dbgAddr
    ELSE dumpLine(getBytes(dbgAddr, 1, 1, nSuppress).dbgAddr, n - 1, nSuppress)

\* the command lines typed: a dump of a line of bytes or the start of assemble
\* mode, with the address parseAddr() makes of the argument, a message category
\* turned on or off, and a comment
DumpLines16 ==
    { [sCmd |-> "db F000:FFF0 l1", dbgAddr |-> newAddr(65520, 61440, NULL)],
      [sCmd |-> "db %FFFE0 l1", dbgAddr |-> newAddr(0, NULL, 1048544)] }
AssembleLines ==
    { [sCmd |-> "a F000:FFF0", dbgAddr |-> newAddr(65520, 61440, NULL)],
      [sCmd |-> "a 2000:0100", dbgAddr |-> newAddr(256, 8192, NULL)] }
MessageLines ==
    { [sCmd |-> "m int on", m |-> MSG_INT, fOn |-> TRUE],
      [sCmd |-> "m halt on", m |-> MSG_HALT, fOn |-> TRUE],
      [sCmd |-> "m int off", m |-> MSG_INT, fOn |-> FALSE] }
CommentLines == {"'step 1", "'step 2"}

\* the command line leaves the history as parseCommand() returned it
Typed(sCmd) ==
    /\ Len(aPrevCmds) < MaxCmds
    /\ \E r \in {parseCommand(aPrevCmds, iPrevCmd, sCmd)} :
          /\ aPrevCmds' = r[1]
          /\ iPrevCmd' = r[2]

\* what neither the command line nor save and restore assign
SavedOnly ==
    UNCHANGED <<machine, DEBUG, mem, regLIP, aSymbolTable, aBreakExec, aBreakRead,
                aBreakWrite, nSuppressBreaks, memBreaks, cInstructions, fProcStep,
                fRunning, regs>>

\* what the message commands and restore leave alone as well
HistoryOnly == UNCHANGED <<aOpcodeHistory, iOpcodeHistory, aaOpcodeCounts>>

\* "db addr l1" is typed: doDump() leaves the address after the line in dbgAddrNextData
TypeDump(c) ==
    /\ Typed(c.sCmd)
    /\ dbgAddrNextData' = dumpLine(c.dbgAddr, DumpBytes, nSuppressBreaks)
    /\ ret' = [op |-> "doDump", fResult |-> TRUE]
    /\ SavedOnly /\ HistoryOnly
    /\ UNCHANGED <<dbgAddrNextCode, dbgAddrAssemble, fAssemble, bitsMessage>>

\* "a addr" is typed: doAssemble() without an instruction
TypeAssemble(c) ==
    /\ Typed(c.sCmd)
    /\ dbgAddrAssemble' = c.dbgAddr
    /\ fAssemble' = TRUE
    /\ ret' = [op |-> "doAssemble", fResult |-> TRUE]
    /\ SavedOnly /\ HistoryOnly
    /\ UNCHANGED <<dbgAddrNextCode, dbgAddrNextData, bitsMessage>>

\* "m category on|off" is typed: doMessages()
TypeMessages(c) ==
    /\ Typed(c.sCmd)
    /\ \E h \in {historyInit([Dbg EXCEPT !.bitsMessage =
                                  IF c.fOn THEN @ \cup {c.m} ELSE @ \ {c.m}])} :
          /\ bitsMessage' = h.bitsMessage
          /\ aOpcodeHistory' = h.aOpcodeHistory
          /\ iOpcodeHistory' = h.iOpcodeHistory
          /\ aaOpcodeCounts' = h.aaOpcodeCounts
    /\ ret' = [op |-> "doMessages", fResult |-> TRUE]
    /\ SavedOnly
    /\ UNCHANGED <<dbgAddrNextCode, dbgAddrNextData, dbgAddrAssemble, fAssemble>>

\* a comment is typed: doCommand() prints it and returns
TypeComment(sCmd) ==
    /\ Typed(sCmd)
    /\ ret' = [op |-> "doCommand", fResult |-> TRUE]
    /\ SavedOnly /\ HistoryOnly
    /\ UNCHANGED <<dbgAddrNextCode, dbgAddrNextData, dbgAddrAssemble, fAssemble,
                   bitsMessage>>

\* save(), for the Computer that powers down
Save ==
    /\ ret' = [op |-> "save", fResult |-> TRUE, data |-> save]
    /\ SavedOnly /\ HistoryOnly
    /\ UNCHANGED <<dbgAddrNextCode, dbgAddrNextData, dbgAddrAssemble, fAssemble,
                   bitsMessage, aPrevCmds, iPrevCmd>>

\* the machine is loaded again and powerUp(data) of the new Debugger gets the state
\* just saved: the constructor, reset(true), and restore(data)
PowerUp ==
    /\ ret.op = "save"
    /\ aBreakExec' = <<"exec">>
    /\ aBreakRead' = <<"read">>
    /\ aBreakWrite' = <<"write">>
    /\ nSuppressBreaks' = 0
    /\ memBreaks' = <<>>
    /\ \E h \in {historyInit([aBreakExec |-> <<"exec">>, bitsMessage |-> {MSG_WARN},
                              aOpcodeHistory |-> <<>>, iOpcodeHistory |-> 0,
                              aaOpcodeCounts |-> <<>>])} :
          /\ aOpcodeHistory' = h.aOpcodeHistory
          /\ iOpcodeHistory' = h.iOpcodeHistory
          /\ aaOpcodeCounts' = h.aaOpcodeCounts
    /\ cInstructions' = 0
    /\ fProcStep' = 0
    /\ fRunning' = FALSE
    /\ regLIP' = CodeStart
    /\ aSymbolTable' = <<>>
    /\ iPrevCmd' = -1
    /\ regs' = [EAX |-> 0, EBX |-> 0, ECX |-> 0, EDX |-> 0]
    /\ dbgAddrNextData' = newAddr(0, NULL, NULL)
    /\ dbgAddrNextCode' = unpackAddr(ret.data[1])
    /\ dbgAddrAssemble' = unpackAddr(ret.data[2])
    /\ aPrevCmds' = ret.data[3][1]
    /\ fAssemble' = ret.data[3][2]
    /\ bitsMessage' = restoreBits({MSG_WARN}, ret.data[3][3])
    /\ ret' = [op |-> "powerUp", fResult |-> TRUE]
    /\ UNCHANGED <<machine, DEBUG, mem>>

NextSave ==
    \/ \E c \in DumpLines16 : TypeDump(c)
    \/ \E c \in AssembleLines : TypeAssemble(c)
    \/ \E c \in MessageLines : TypeMessages(c)
    \/ \E sCmd \in CommentLines : TypeComment(sCmd)
    \/ Save
    \/ PowerUp

\* the command line, and the state saved and restored
SpecSave == Init /\ [][NextSave]_vars

----------------------------------------------------------------------------
(* Re-entrancy: a memory read made while a breakpoint's address is resolved
   reaches checkMemoryRead() before addBreakpoint() or checkBreakpoint() is done *)

\* the reads of a segment lookup: a byte or a word of a descriptor
NestedSizes == {1, 2}

\* the debugger once addBreakpoint() or checkBreakpoint() has raised the counter
Entered(s) == [s EXCEPT !.nSuppressBreaks = @ + 1]

\* checkMemoryRead(addr, nb) called from within: what checkBreakpoint() returned,
\* the counter it was entered and left with, and whether it left every field alone
nestedRead(s, addr, nb, bMem) ==
    With(checkBreakpoint(s, addr, nb, "read", FALSE, bMem),
         LAMBDA r : [fBreak |-> r.fBreak, nEntry |-> s.nSuppressBreaks,
                     nExit |-> r.s.nSuppressBreaks, fSame |-> r.s = s, s |-> r.s])

\* addBreakpoint() with the read in findBreakpoint(): [inner, out]
addBreakpointNested(s, c, dbgAddr, fTemp, addr, nb, bMem) ==
    With(nestedRead(Entered(s), addr, nb, bMem),
         LAMBDA n : [inner |-> n,
                     out |-> addFrom(c, fTemp, findBreakpoint(n.s, c, dbgAddr, FALSE))])

\* checkBreakpoint() with the read in the first getAddr() of its loop: [inner, out]
checkBreakpointNested(s, addr, nb, c, addrIn, nbIn, bIn) ==
    With(nestedRead(Entered(s), addrIn, nbIn, bIn),
         LAMBDA n : [inner |-> n,
                     out |-> checkDone(checkLoop(n.s, c, mapBreakpoint(addr), nb, 2))])

\* what the operation that was re-entered reports of the call from within
Inner(outer, n, fResult) ==
    [op |-> "nested", outer |-> outer, fResult |-> fResult, fInner |-> n.fBreak,
     nInner |-> n.nEntry, nInnerExit |-> n.nExit, fInnerSame |-> n.fSame]

\* doBreak "br", "bw" with a selector:offset address whose lookup reads memory
NestedAdd(c, dbgAddr, addr, nb, bMem) ==
    /\ NumBreaks(Dbg) < MaxBreaks
    /\ dbgAddr.sel # NULL
    /\ \E r \in {addBreakpointNested(Dbg, c, dbgAddr, FALSE, addr, nb, bMem)} :
          /\ NetBounded(r.out.s)
          /\ Becomes(r.out.s)
          /\ ret' = Inner("addBreakpoint", r.inner, r.out.fSuccess)
    /\ UNCHANGED regLIP

\* checkMemoryRead() or checkMemoryWrite() whose scan of the collection looks up
\* the segment of a breakpoint, the lookup reading memory
NestedCheck(c, addr, nb, bMem, addrIn, nbIn, bIn) ==
    /\ ~(messageEnabled(Dbg, {MSG_INT, MSG_HALT}) /\ bMem = OPCODE_INT3)
    /\ Len(Coll(Dbg, c)) >= 2 /\ Coll(Dbg, c)[2].sel # NULL
    /\ \E r \in {checkBreakpointNested(Dbg, addr, nb, c, addrIn, nbIn, bIn)} :
          /\ Becomes(r.out.s)
          /\ ret' = Inner("checkBreakpoint", r.inner, r.out.fBreak)
    /\ UNCHANGED regLIP

\* the reads from within: the byte below a breakpoint's address and the byte at it
NestedAddrs == {1048559, 1048560}

NextNest ==
    \/ \E c \in {"read", "write"}, a \in BreakInputs : DoBreakSet(c, a)
    \/ DoBreakClearAll
    \/ \E addr \in NestedAddrs, nb \in NestedSizes, b \in {OPCODE_NOP, OPCODE_INT3} :
          CheckMemoryRead(addr, nb, b)
    \/ \E m \in {MSG_INT, MSG_HALT}, fOn \in BOOLEAN : DoMessages(m, fOn)
    \/ \E c \in {"read", "write"}, a \in BreakInputs, addr \in NestedAddrs,
          nb \in NestedSizes, b \in {OPCODE_NOP, OPCODE_INT3} : NestedAdd(c, a, addr, nb, b)
    \/ \E c \in {"read", "write"}, addr \in NestedAddrs, nb \in NestedSizes,
          addrIn \in NestedAddrs, nbIn \in NestedSizes, b \in {OPCODE_NOP, OPCODE_INT3} :
          NestedCheck(c, addr, nb, OPCODE_NOP, addrIn, nbIn, b)

\* read and write breakpoints, the memory accesses checked against them, and the
\* memory reads their own address lookups make
SpecNest == Init /\ [][NextNest]_vars

----------------------------------------------------------------------------
(* The register command: doRegisters "r reg=value" for the general registers *)

\* w << 8 as a 32-bit integer
Shl8(w) ==
    With(w % 16777216,
         LAMBDA low : IF low >= 8388608 THEN (low - 16777216) * 256 ELSE low * 256)

\* "(this.cpu.regEAX & ~0xff) | (w & 0xff)"
setLow(r, w) == BitOr(BitAnd(r, -256), BitAnd(w, 255))

\* "(this.cpu.regEAX & ~0xff00) | ((w << 8) & 0xff)"
setHigh(r, w) == BitOr(BitAnd(r, -65281), BitAnd(Shl8(w), 255))

\* "(this.cpu.regEAX & ~0xffff) | (w & 0xffff)"
setWord(r, w) == BitOr(BitAnd(r, -65536), BitAnd(w, 65535))

\* the names "r" is given: the byte and word registers of EAX, EBX, ECX and EDX,
\* EAX, and a name that is no register
RegNames == {"AL", "AH", "AX", "BL", "BH", "BX", "CL", "CH", "CX", "DL", "DH", "DX",
             "EAX", "XX"}
LowNames == [AL |-> "EAX", BL |-> "EBX", CL |-> "ECX", DL |-> "EDX"]
HighNames == [AH |-> "EAX", BH |-> "EBX", CH |-> "ECX", DH |-> "EDX"]
WordNames == [AX |-> "EAX", BX |-> "EBX", CX |-> "ECX", DX |-> "EDX"]

\* the values parseExpression() returns for the values given: 1234 and AB
RegValues == {4660, 171}

\* this.cchReg <= 4: the registers are 16 bits wide
cchReg == IF machine.model = 80386 THEN 8 ELSE 4

\* doRegisters(): the switch on sRegMatch, w being defined
setRegister(r, sReg, w) ==
    IF sReg \in DOMAIN LowNames
    THEN [fUnknown |-> FALSE, regs |-> [r EXCEPT ![LowNames[sReg]] = setLow(@, w)]]
    ELSE IF sReg \in DOMAIN HighNames
    THEN [fUnknown |-> FALSE, regs |-> [r EXCEPT ![HighNames[sReg]] = setHigh(@, w)]]
    ELSE IF sReg \in DOMAIN WordNames
    THEN [fUnknown |-> FALSE, regs |-> [r EXCEPT ![WordNames[sReg]] = setWord(@, w)]]
    ELSE IF sReg = "EAX" /\ cchReg > 4
    THEN [fUnknown |-> FALSE, regs |-> [r EXCEPT !.EAX = w]]
    ELSE [fUnknown |-> TRUE, regs |-> r]

\* doRegisters(["r", sReg + "=" + sValue]), w being parseExpression(sValue) when
\* the expression evaluates (fDefined): the registers afterwards and whether
\* "updated registers:" was reached
doRegisters(r, sReg, fDefined, w) ==
    IF fDefined
    THEN With(setRegister(r, sReg, w),
              LAMBDA u : [fUpdated |-> ~u.fUnknown, regs |-> u.regs])
    ELSE [fUpdated |-> FALSE, regs |-> r]

\* the command "r reg=value"; once the registers are updated they are dumped and
\* the instruction at CS:IP is unassembled
DoRegisters(sReg, fDefined, w) ==
    /\ \E u \in {doRegisters(regs, sReg, fDefined, w)} :
          /\ regs' = u.regs
          /\ dbgAddrNextCode' =
                IF u.fUpdated
                THEN With(doUnassemble(checkLimit(newAddr(ResetIP, machine.segCS.sel, NULL),
                                                  nSuppressBreaks),
                                       IF fProcStep # 0 THEN "cycles" ELSE "",
                                       nSuppressBreaks),
                          LAMBDA r : IF Len(r.lines) > 0 THEN r.dbgAddr
                                     ELSE newAddr(ResetIP, machine.segCS.sel, NULL))
                ELSE dbgAddrNextCode
          /\ ret' = [op |-> "doRegisters", fResult |-> u.fUpdated, sReg |-> sReg,
                     fDefined |-> fDefined, w |-> w]
    /\ UNCHANGED <<bitsMessage, aBreakExec, aBreakRead, aBreakWrite, nSuppressBreaks,
                   memBreaks, aOpcodeHistory, iOpcodeHistory, aaOpcodeCounts,
                   cInstructions, fProcStep, fRunning, machine, DEBUG, regLIP,
                   dbgAddrNextData, mem, aSymbolTable, typed>>

InitRegs == Init /\ ~DEBUG /\ ~machine.fProtMode /\ machine.model \in {8086, 80386}

NextRegs ==
    \E sReg \in RegNames, fDefined \in BOOLEAN, w \in RegValues :
        DoRegisters(sReg, fDefined, w)

\* the register command
SpecRegs == InitRegs /\ [][NextRegs]_vars

----------------------------------------------------------------------------
(* Properties of the breakpoint engine *)

\* the folded linear address of a stored breakpoint as checkBreakpoint() resolves it
EntryLinear(e) ==
    mapBreakpoint(getAddr(IF e.sel # NULL THEN [e EXCEPT !.addr = NULL] ELSE e, 1)[1])

\* the folded linear address of a stored breakpoint as findBreakpoint() resolves it
\* on behalf of addBreakpoint()
EntryFound(e) == mapBreakpoint(getAddr(e, 1)[1])

\* some breakpoint of array a lies in the nb bytes at the folded address of addr
Overlaps(a, addr, nb) ==
    \E j \in 2..Len(a) :
        LET b == EntryLinear(a[j]) IN
        b # ADDR_INVALID /\ mapBreakpoint(addr) <= b /\ b < mapBreakpoint(addr) + nb

\* C1: a memory access of nb bytes (nb in {1, 2, 4}) made with the nesting counter
\* at 0 reports a hit whenever a breakpoint of the collection lies on any byte of
\* the accessed range
C1_EveryByteCompared ==
    (ret.op = "checkMemory" /\ Overlaps(Coll(Dbg, ret.c), ret.addr, ret.nb))
        => ret.fResult

\* C2: a memory access reports a hit (and stops the CPU) only if a breakpoint of
\* the same collection lies in the accessed range, whatever the message
\* categories and the byte stored there; never for an empty collection
C2_HitOnlyOnBreakpoint ==
    (ret.op = "checkMemory" /\ (ret.fResult \/ ret.fStopCPU))
        => Overlaps(Coll(Dbg, ret.c), ret.addr, ret.nb)

\* entries i and j of array a are the same breakpoint for findBreakpoint()
SameBreakpoint(a, i, j) ==
    LET ai == EntryFound(a[i])
        aj == EntryFound(a[j])
    IN \/ ai # ADDR_INVALID /\ ai = aj
       \/ ai = ADDR_INVALID /\ aj = ADDR_INVALID
            /\ a[i].sel = a[j].sel /\ a[i].off = a[j].off

NoDuplicates(a) ==
    \A i \in 2..Len(a) : \A j \in 2..Len(a) : i # j => ~SameBreakpoint(a, i, j)

\* C3: no collection ever holds two entries with the same folded linear address
\* (or, unresolved, the same selector:offset), and adding a selector:offset that
\* is already present returns false and leaves the size of the collection unchanged
C3_NoDuplicates ==
    /\ NoDuplicates(aBreakExec) /\ NoDuplicates(aBreakRead) /\ NoDuplicates(aBreakWrite)
    /\ (ret.op = "addBreakpoint" /\ ret.fPresent) => (~ret.fResult /\ ~ret.fGrew)

\* the linear address addBreakpoint() hands to the bus for breakpoint e
BusAddr(e) == getAddr(e, 1)[1]

\* the number of entries of array a registered with the bus under key k
Registered(a, fWrite, k) ==
    Cardinality({j \in 2..Len(a) : <<BusAddr(a[j]), fWrite>> = k})

\* C5: the bus holds exactly one registration per read breakpoint and per write
\* breakpoint, at that breakpoint's linear address, and nothing else
C5_BusInStep ==
    LET keys == DOMAIN memBreaks
                  \cup {<<BusAddr(aBreakRead[j]), FALSE>> : j \in 2..Len(aBreakRead)}
                  \cup {<<BusAddr(aBreakWrite[j]), TRUE>> : j \in 2..Len(aBreakWrite)}
    IN \A k \in keys :
          (IF k \in DOMAIN memBreaks THEN memBreaks[k] ELSE 0)
            = Registered(aBreakRead, FALSE, k) + Registered(aBreakWrite, TRUE, k)

\* the execution breakpoints: the entries of aBreakExec after its tag
ExecBreakpoints == {j \in 1..Len(aBreakExec) : j > 1}

\* C7 as stated: tracking is on iff more than one execution breakpoint exists or
\* the INT category is enabled
C7_MoreThanOne ==
    checksEnabled(Dbg, TRUE)
        <=> (Cardinality(ExecBreakpoints) > 1 \/ MSG_INT \in bitsMessage)

\* C7 amended: tracking is on iff at least one execution breakpoint exists or the
\* INT category is enabled
C7_AtLeastOne ==
    checksEnabled(Dbg, TRUE)
        <=> (Cardinality(ExecBreakpoints) >= 1 \/ MSG_INT \in bitsMessage)

C7_Witness ==
    /\ Cardinality(ExecBreakpoints) = 1
    /\ MSG_INT \notin bitsMessage
    /\ checksEnabled(Dbg, TRUE)

HistoryAllocated == Len(aOpcodeHistory) = HistoryLimit /\ DOMAIN aaOpcodeCounts # {}
HistoryFreed == Len(aOpcodeHistory) = 0 /\ DOMAIN aaOpcodeCounts = {}

\* C8, for a release build (DEBUG off, where checksEnabled() is the release
\* criteria): after every operation that can change the criteria the history
\* buffer and the opcode counters are allocated exactly when checksEnabled(release)
\* holds, and freed otherwise
C8_AllocatedIffTracking ==
    (~DEBUG /\ ret.op # "init")
        => /\ checksEnabled(Dbg, TRUE) => HistoryAllocated
           /\ ~checksEnabled(Dbg, TRUE) => HistoryFreed


----------------------------------------------------------------------------
(* Properties of temporary breakpoints *)

\* the exec array a holds a temporary breakpoint at the folded linear address of L
TempAt(a, L) ==
    \E j \in 2..Len(a) : a[j].fTempBreak /\ EntryLinear(a[j]) = mapBreakpoint(L)

\* the non-temporary breakpoints of array a, in order, as they were entered
Permanent(a) ==
    SelectSeq([j \in 1..(Len(a) - 1) |->
                  [sel |-> a[j + 1].sel, off |-> a[j + 1].off,
                   addr |-> IF a[j + 1].sel = NULL THEN a[j + 1].addr ELSE NULL,
                   fTempBreak |-> a[j + 1].fTempBreak]],
              LAMBDA e : ~e.fTempBreak)

\* the step is a checkBreakpoint() of the exec collection at address L with the
\* nesting counter at 0: by checkInstruction(L, nState > 0) or by stop() at regLIP = L
ExecChecked(L) ==
    /\ nSuppressBreaks = 0
    /\ \/ ret'.op = "checkInstruction" /\ ret'.nState > 0 /\ ret'.addr = L
       \/ ret'.op = "stop" /\ regLIP = L

\* C4: when the exec collection holds a temporary breakpoint at linear address L
\* and checkBreakpoint is invoked for the exec collection with address L, the
\* call returns true and the temporary entry is gone afterwards: the collection
\* is one entry shorter, every non-temporary entry is still there, and no
\* temporary breakpoint is left at L
C4_TempRemovedOnHit ==
    [][\A L \in {regLIP} :
          (ExecChecked(L) /\ TempAt(aBreakExec, L))
            => /\ ret'.op = "checkInstruction" => ret'.fResult
               /\ Len(aBreakExec') = Len(aBreakExec) - 1
               /\ Permanent(aBreakExec') = Permanent(aBreakExec)
               /\ ~TempAt(aBreakExec', L)]_vars

----------------------------------------------------------------------------
(* Properties of the instruction history *)

\* the buffer has its fixed length and the cursor lies inside it
HistoryShape ==
    /\ Len(aOpcodeHistory) \in {0, HistoryLimit}
    /\ Len(aOpcodeHistory) > 0 =>
          (0 <= iOpcodeHistory /\ iOpcodeHistory < Len(aOpcodeHistory))

\* the step is a checkInstruction() that recorded the dispatch at ret'.addr
Recorded ==
    /\ ret'.op = "checkInstruction" /\ ~ret'.fResult
    /\ DOMAIN aaOpcodeCounts # {}

\* C9: while the history buffer is allocated its length is HISTORY_LIMIT and the
\* write cursor satisfies 0 <= iOpcodeHistory < length; each recorded dispatch
\* overwrites the slot at the cursor, leaves the other slots alone and advances
\* the cursor by one modulo the length
C9_HistoryRing ==
    /\ []HistoryShape
    /\ [][Recorded =>
            /\ Len(aOpcodeHistory') = Len(aOpcodeHistory)
            /\ \A i \in 1..Len(aOpcodeHistory) :
                  aOpcodeHistory'[i] =
                      IF i = iOpcodeHistory + 1
                      THEN [off |-> ret'.addr - machine.segCS.base,
                            sel |-> machine.segCS.sel, addr |-> ret'.addr]
                      ELSE aOpcodeHistory[i]
            /\ iOpcodeHistory' = (iOpcodeHistory + 1) % Len(aOpcodeHistory)]_vars

\* a recorded dispatch filled the last slot and the cursor wrapped to slot 0
C9_Witness ==
    /\ ret.op = "checkInstruction" /\ ~ret.fResult
    /\ Len(aOpcodeHistory) = HistoryLimit
    /\ aOpcodeHistory[HistoryLimit].sel # NULL
    /\ iOpcodeHistory = 0

\* the number of operand-size and address-size prefix bytes in front of the
\* instruction getInstruction() decodes at linear address addr
PrefixBytes(addr) == skipOverrides(addr, 4, FALSE, FALSE).addr - addr

\* each of the k prefix bytes at addr and the opcode after them was recorded in
\* its own slot, the first in the slot at JS index i
RecordedApart(i, addr, k) ==
    \A j \in 0..k :
        aOpcodeHistory[((i + j) % Len(aOpcodeHistory)) + 1].addr = addr + j

\* C10: when the instruction a line of the playback decodes from a slot is
\* preceded by k operand-size/address-size prefix bytes (1 <= k <= 4), each
\* recorded in its own slot, the next line starts at the slot after those k
\* extra slots, so at none of the slots whose byte the line has disassembled
C10_SkipsPrefixSlots ==
    ret.op = "dumpHistory" =>
        \A m \in 1..(Len(ret.lines) - 1) :
            \A k \in {PrefixBytes(ret.lines[m].addr)} :
                (1 <= k /\ k <= 4 /\ RecordedApart(ret.lines[m].slot, ret.lines[m].addr, k))
                    => /\ ret.lines[m + 1].slot
                             = (ret.lines[m].slot + k + 1) % Len(aOpcodeHistory)
                       /\ \A j \in 1..k :
                             ret.lines[m + 1].slot
                                 # (ret.lines[m].slot + j) % Len(aOpcodeHistory)

\* the prefixes C6 skips before it looks at the opcode: segment overrides, OS,
\* AS, LOCK, REPNZ, REPZ
SkippedPrefixes == {38, 46, 54, 62, 100, 101, OPCODE_OS, OPCODE_AS, 240, 242, 243}

\* where the opcode of the instruction code stands, behind its prefixes
OpcodeIndex(code) ==
    CHOOSE i \in 1..Len(code) :
        /\ code[i] \notin SkippedPrefixes
        /\ \A j \in 1..(i - 1) : code[j] \in SkippedPrefixes

\* CALL near, CALL far, INT n, INT3, INTO, or a group-4 CALL (reg field 2 or 3)
IsCallOrInt(code) ==
    LET i == OpcodeIndex(code) IN
    \/ code[i] \in {232, 154, 205, 204, 206}
    \/ code[i] = 255 /\ (code[i + 1] \div 8) % 8 \in {2, 3}

\* a string instruction with REPNZ or REPZ among its prefixes
IsRepString(code) ==
    LET i == OpcodeIndex(code) IN
    /\ code[i] \in (108..111) \cup (164..167) \cup (170..175)
    /\ \E j \in 1..(i - 1) : code[j] \in {242, 243}

\* LOOPNZ, LOOPZ or LOOP
IsLoop(code) == code[OpcodeIndex(code)] \in {224, 225, 226}

\* an exec breakpoint of a stands at linear address L
BreakAt(a, L) == \E j \in 2..Len(a) : EntryLinear(a[j]) = mapBreakpoint(L)

\* this step is a doProcStep with no step in progress, of the instruction mem
ProcStepped ==
    /\ ret'.op = "doProcStep" /\ ret'.fResult
    /\ regLIP = CodeStart /\ ret'.addr = CodeStart

\* the step asked for a temporary breakpoint just past the instruction and
\* for the CPU to run
SteppedOver ==
    /\ ret'.addrTemp = CodeStart + Len(mem) /\ ret'.fRun /\ ~ret'.fStep
    /\ BreakAt(aBreakExec', CodeStart + Len(mem))
    /\ ~BreakAt(aBreakExec, CodeStart + Len(mem))
          => /\ TempAt(aBreakExec', CodeStart + Len(mem))
             /\ Len(aBreakExec') = Len(aBreakExec) + 1
    /\ ret'.fAvail => (fRunning' /\ fProcStep' = 1 + ret'.fRegs)
    /\ regLIP' = regLIP /\ cInstructions' = cInstructions

\* the step added no breakpoint and made an ordinary single-instruction step
SingleStepped ==
    /\ ret'.addrTemp = NULL /\ ret'.fStep /\ ~ret'.fRun
    /\ aBreakExec' = aBreakExec
    /\ fProcStep' = 0 /\ fRunning' = fRunning
    /\ ret'.fAvail => (cInstructions' > cInstructions /\ regLIP' # regLIP)

FreshAddr(d) == getAddr([d EXCEPT !.addr = NULL], nSuppressBreaks)[1]

\* the cached linear address of d, if any, is what a fresh resolution returns
CacheFresh(d) == d.addr # NULL => d.addr = FreshAddr(d)

\* this step is an incAddr of a segmented address whose segment resolves
IncSegmented ==
    /\ ret'.op = "incAddr" /\ ret'.before = dbgAddrNextData
    /\ dbgAddrNextData.sel # NULL
    /\ getSegment(dbgAddrNextData.sel, nSuppressBreaks).ok

\* this step is an incAddr that moves the offset past the segment limit
IncPastLimit ==
    /\ IncSegmented
    /\ dbgAddrNextData.off + ret'.inc
          >= getSegment(dbgAddrNextData.sel, nSuppressBreaks).offMax

\* C11: an incAddr that moves the offset of a segmented address past the segment
\* limit leaves offset 0 and no cached linear address, and an incAddr of an
\* address whose cached linear address is fresh leaves it fresh or null.
C11_WrapInvalidatesCache ==
    [][/\ IncPastLimit => (dbgAddrNextData'.off = 0 /\ dbgAddrNextData'.addr = NULL)
       /\ (IncSegmented /\ CacheFresh(dbgAddrNextData)) => CacheFresh(dbgAddrNextData')]_vars

\* the all-ones value of nb bytes: 0xFF, 0xFFFF, and 0xFFFFFFFF as the signed -1
AllOnes(nb) == IF nb = 1 THEN 255 ELSE IF nb = 2 THEN 65535 ELSE -1

\* address d resolves to Invalid for an access of nb bytes
ResolvesInvalid(d, fWrite, nb) ==
    getAddrFor(d, fWrite, nb, nSuppressBreaks)[1] = ADDR_INVALID

\* the step left selector and offset of the data address where they were
NotAdvanced ==
    /\ dbgAddrNextData'.sel = dbgAddrNextData.sel
    /\ dbgAddrNextData'.off = dbgAddrNextData.off
    /\ dbgAddrNextData'.addr \in {dbgAddrNextData.addr, ADDR_INVALID}

\* C12: when the address resolves to Invalid, getByte, getShort and getLong return
\* the all-ones value without reading memory and without advancing the address,
\* also when an advance was asked for, and setByte and setShort write nothing.
C12_InvalidReadsAllOnes ==
    [][/\ (ret'.op = "get" /\ ret'.before = dbgAddrNextData
              /\ ResolvesInvalid(dbgAddrNextData, FALSE, ret'.nb))
          => (ret'.value = AllOnes(ret'.nb) /\ ~ret'.fResult /\ NotAdvanced)
       /\ (ret'.op = "set" /\ ret'.before = dbgAddrNextData
              /\ ResolvesInvalid(dbgAddrNextData, TRUE, ret'.nb))
          => (ret'.addr = NULL /\ mem' = mem /\ NotAdvanced)]_vars

\* a getLong of an address past the limit, asked to advance, has returned -1
C12_Witness ==
    /\ ret.op = "get" /\ ret.nb = 4 /\ ret.fAdvance /\ ~ret.fResult
    /\ ret.value = -1 /\ ret.before.sel = 61440 /\ ret.before.off = 65534
    /\ dbgAddrNextData.off = 65534

----------------------------------------------------------------------------
(* The disassembler *)

\* the lines the last command printed, if it was an unassemble command
Lines == IF ret.op = "unassemble" THEN ret.lines ELSE <<>>

\* dbgAddr has the default sizes of the code segment
DefaultSizes(dbgAddr) ==
    /\ dbgAddr.fData32 = (machine.segCS.dataSize = 4)
    /\ dbgAddr.fAddr32 = (machine.segCS.addrSize = 4)

\* the line decoded a complete instruction and left the default sizes
CompleteResets(l) == l.ins.fComplete => DefaultSizes(l.ins.dbgAddr)

\* the original statement of C13: a complete decode leaves the default sizes of
\* the code segment, and a prefix-only decode leaves fData32 and fAddr32 as they
\* were before it
C13_PrefixLeavesSizes ==
    \A i \in DOMAIN Lines :
        /\ CompleteResets(Lines[i])
        /\ ~Lines[i].ins.fComplete =>
              /\ Lines[i].ins.dbgAddr.fData32 = Lines[i].dbgAddr.fData32
              /\ Lines[i].ins.dbgAddr.fAddr32 = Lines[i].dbgAddr.fAddr32

\* C13: after getInstruction decodes a complete instruction, fData32 and fAddr32
\* are the code segment's defaults whatever size prefixes it consumed, so no
\* size override is carried into the next instruction (the address the next
\* command starts from has the default sizes); after a prefix-only decode
\* fComplete is false and the flags are not reset: each is as it was before the
\* decode, inverted if the decode consumed its size prefix (66 for fData32, 67
\* for fAddr32) ahead of the prefix opcode
C13_SizesResetWhenComplete ==
    /\ \A i \in DOMAIN Lines :
        /\ CompleteResets(Lines[i])
        /\ ~Lines[i].ins.fComplete =>
              /\ Lines[i].ins.dbgAddr.fData32
                    = (Lines[i].dbgAddr.fData32 # Lines[i].ins.fDataPrefix)
              /\ Lines[i].ins.dbgAddr.fAddr32
                    = (Lines[i].dbgAddr.fAddr32 # Lines[i].ins.fAddrPrefix)
        /\ (i > 1 /\ Lines[i - 1].ins.fComplete) => DefaultSizes(Lines[i].dbgAddr)
    /\ (Lines # <<>> /\ Lines[Len(Lines)].ins.fComplete) => DefaultSizes(dbgAddrNextCode)

\* a 32-bit code segment: 66 26 was decoded as a prefix-only line that left
\* fData32 inverted, and the NOP after it as a complete instruction
C13_Witness ==
    /\ Len(Lines) = 2
    /\ machine.segCS.dataSize = 4
    /\ Lines[1].ins.fDataPrefix /\ ~Lines[1].ins.fComplete
    /\ Lines[1].ins.sOpcode = "ES:"
    /\ ~Lines[1].ins.dbgAddr.fData32
    /\ Lines[2].ins.fComplete /\ Lines[2].ins.sOpcode = "NOP"
    /\ DefaultSizes(dbgAddrNextCode)

\* the line decoded the code at CS:FFF0, the first bytes of the program
AtStart(l) == l.dbgAddr.off = ResetIP /\ l.dbgAddr.sel = machine.segCS.sel

\* C14: for every opcode byte, every following byte and every CPU model,
\* getInstruction finds a descriptor in the primary, the 0F and the group tables
\* (no lookup yields undefined, so the command does not throw) and every line has
\* a non-empty mnemonic, INVALID for 0F on an 80186 and for 0F followed by a byte
\* the 0F table has no descriptor for on an 80286 or 80386
C14_TablesTotal ==
    ret.op = "unassemble" =>
        /\ ret.fResult
        /\ Lines # <<>>
        /\ \A i \in DOMAIN Lines :
            /\ Lines[i].ins.sOpcode # ""
            /\ (AtStart(Lines[i]) /\ mem[1] = 15 /\ machine.model = 80186)
                  => Lines[i].ins.sOpcode = "INVALID"
            /\ (AtStart(Lines[i]) /\ mem[1] = 15 /\ machine.model >= 80286
                  /\ mem[2] \notin Op0FBytes)
                  => Lines[i].ins.sOpcode = "INVALID"

\* an 80286 decoded 0F FF, for which the 0F table has no descriptor, as INVALID
C14_Witness ==
    /\ machine.model = 80286
    /\ mem = <<15, 255>>
    /\ ret.op = "unassemble" /\ ret.fResult
    /\ Len(Lines) = 1 /\ AtStart(Lines[1])
    /\ Lines[1].ins.sOpcode = "INVALID"
    /\ Lines[1].ins.dbgAddr.off = ResetIP + 2

\* the CPU model the descriptor of primary opcode b is gated on: that of its
\* first operand type
GateOf(b) == IF Len(opDesc(b)) > 1 THEN CPUS[TYPE_CPU(opDesc(b)[2]) + 1] ELSE CPUS[1]

\* the mnemonic the tables list for primary opcode b followed by byte bNext: that
\* of its descriptor, or of the descriptor its group has for the reg field of bNext
ListedName(b, bNext) ==
    IF opDesc(b)[1] >= Len(INS_NAMES) THEN insName(grpDesc(opDesc(b)[1], bNext)[1])
    ELSE insName(opDesc(b)[1])

\* C15: when the opcode at CS:FFF0 has a primary descriptor gated on a CPU model
\* higher than the active one, prefix and group opcodes included, the line
\* decoded there has the listed mnemonic and the comment "<model> CPU only"
\* naming the model of that gate
C15_GatedOpcodesCommented ==
    \A i \in DOMAIN Lines :
        (AtStart(Lines[i]) /\ machine.model < GateOf(mem[1])) =>
            /\ Lines[i].ins.sOpcode = ListedName(mem[1], mem[2])
            /\ Lines[i].ins.sComment = ToString(GateOf(mem[1])) \o " CPU only"

\* the command unassembled the bytes 8B 45 04 at CS:FFF0 of a 16-bit code segment
Decoded8B4504 ==
    /\ mem = <<139, 69, 4>>
    /\ machine.segCS.dataSize = 2 /\ machine.segCS.addrSize = 2
    /\ Len(Lines) = 1 /\ AtStart(Lines[1])

\* the original statement of C16: 8B 45 04 decodes as MOV AX,[BP+04], three bytes
C16_MovAxBpDisp ==
    Decoded8B4504 =>
        /\ Lines[1].ins.sOpcode = "MOV"
        /\ Lines[1].ins.sOperands = "AX,[BP+04]"
        /\ Lines[1].ins.dbgAddr.off = ResetIP + 3

\* C16: decoding the bytes 8B 45 04 (mod=01, reg=000, rm=101) with 16-bit
\* operand and address size yields the mnemonic MOV with the operands AX,[DI+04]
\* and advances the address by exactly three bytes
C16_MovAxDiDisp ==
    Decoded8B4504 =>
        /\ Lines[1].ins.sOpcode = "MOV"
        /\ Lines[1].ins.sOperands = "AX,[DI+04]"
        /\ Lines[1].ins.dbgAddr.off = ResetIP + 3
        /\ Lines[1].ins.dbgAddr.addr = Lines[1].dbgAddr.addr + 3

\* an 8086 unassembled 8B 45 04 and the next command starts three bytes further
C16_Witness ==
    /\ Decoded8B4504
    /\ machine.model = 8086
    /\ Lines[1].ins.fComplete
    /\ Lines[1].ins.sOperands = "AX,[DI+04]"
    /\ dbgAddrNextCode.off = ResetIP + 3

\* the descriptor getInstruction ends up with for primary opcode b followed by
\* byte bNext: that of b, or the one its group has for the reg field of bNext
FinalDesc(b, bNext) ==
    IF opDesc(b)[1] >= Len(INS_NAMES) THEN grpDesc(opDesc(b)[1], bNext) ELSE opDesc(b)

\* the operand types of descriptor aOpDesc
TypesOf(aOpDesc) == { aOpDesc[i] : i \in 2..Len(aOpDesc) }

\* descriptor aOpDesc, or the group opcode it was found for, uses a ModRM byte
UsesModRM(b, aOpDesc) ==
    \/ opDesc(b)[1] >= Len(INS_NAMES)
    \/ \E type \in TypesOf(aOpDesc) :
          TYPE_SIZE(type) \notin {TYPE_NONE, TYPE_PREFIX} /\ TYPE_MODE(type) >= TYPE_MODRM

\* the bytes of the immediate an operand of type type stands for, words being
\* cbData bytes and offsets cbAddr bytes: immediate data (also when its display
\* is suppressed), a far pointer, an immediate offset, a relative displacement,
\* and the immediate that follows the ModRM operand of a three-operand IMUL
\* (sizes TYPE_WORDIB = 10 and TYPE_WORDIW = 11)
ImmSize(type, cbData, cbAddr) ==
    CASE TYPE_SIZE(type) \in {TYPE_NONE, TYPE_PREFIX} -> 0
      [] TYPE_MODE(type) = TYPE_IMM /\ TYPE_SIZE(type) \in {TYPE_BYTE, TYPE_SBYTE} -> 1
      [] TYPE_MODE(type) = TYPE_IMM /\ TYPE_SIZE(type) = TYPE_WORD -> 2
      [] TYPE_MODE(type) = TYPE_IMM /\ TYPE_SIZE(type) \in {TYPE_VWORD, TYPE_2WORD} -> cbData
      [] TYPE_MODE(type) = TYPE_IMM /\ TYPE_SIZE(type) = TYPE_FARP -> cbData + 2
      [] TYPE_MODE(type) = TYPE_IMMOFF -> cbAddr
      [] TYPE_MODE(type) = TYPE_IMMREL /\ TYPE_SIZE(type) = TYPE_BYTE -> 1
      [] TYPE_MODE(type) = TYPE_IMMREL /\ TYPE_SIZE(type) # TYPE_BYTE -> cbData
      [] TYPE_MODE(type) >= TYPE_MODRM /\ TYPE_SIZE(type) = 10 -> 1
      [] TYPE_MODE(type) >= TYPE_MODRM /\ TYPE_SIZE(type) = 11 -> cbData
      [] OTHER -> 0

RECURSIVE ImmSizes(_, _, _, _)
\* the bytes of the immediates of the operands of aOpDesc from index i on
ImmSizes(aOpDesc, i, cbData, cbAddr) ==
    IF i > Len(aOpDesc) THEN 0
    ELSE ImmSize(aOpDesc[i], cbData, cbAddr) + ImmSizes(aOpDesc, i + 1, cbData, cbAddr)

\* the length the descriptor implies: opcode, ModRM byte, immediates
ImpliedLength(b, aOpDesc) ==
    1 + (IF UsesModRM(b, aOpDesc) THEN 1 ELSE 0)
      + ImmSizes(aOpDesc, 2, machine.segCS.dataSize, machine.segCS.addrSize)

\* line l decoded the primary opcode at CS:FFF0 in register form: no size prefix
\* ahead of it, not the escape 0F, and mod = 11 in the byte after it if the
\* descriptor uses a ModRM byte
RegisterForm(l) ==
    /\ AtStart(l)
    /\ mem[1] \notin {OPCODE_OS, OPCODE_AS}
    /\ opDesc(mem[1])[1] # INS_OP0F
    /\ UsesModRM(mem[1], FinalDesc(mem[1], mem[2])) => mem[2] >= 192

\* C17: every primary opcode decoded in register form advances the address by
\* 1, plus 1 if its descriptor uses a ModRM byte, plus the sizes of its
\* immediates, the suppressed immediate of AAM/AAD (D4/D5) and the trailing
\* immediate of the three-operand IMUL (69/6B) included
C17_LengthAsDescribed ==
    \A i \in DOMAIN Lines :
        RegisterForm(Lines[i]) =>
            Lines[i].ins.dbgAddr.addr - Lines[i].dbgAddr.addr
                = ImpliedLength(mem[1], FinalDesc(mem[1], mem[2]))

----------------------------------------------------------------------------
(* The expression parser *)

\* the last command parsed an expression
Parsed == ret.op = "parseExpression"

\* the index of the operator of ops that is applied last: the rightmost of those
\* of the lowest precedence
LastOp(ops) ==
    CHOOSE j \in DOMAIN ops :
        /\ \A i \in DOMAIN ops : aBinOpPrecedence(ops[j]) <= aBinOpPrecedence(ops[i])
        /\ \A i \in DOMAIN ops :
              (i > j) => aBinOpPrecedence(ops[j]) < aBinOpPrecedence(ops[i])

\* the value of an expression when higher precedence is applied first and equal
\* precedence from left to right: whether it has one, the value, and whether a
\* "/" or "%" is applied to a right operand that is zero
RECURSIVE Value(_, _)
Combine(chOp, l, r) ==
    [fDefined |-> l.fDefined /\ r.fDefined /\ ~(chOp \in {"/", "%"} /\ r.value = 0),
     value |-> IF l.fDefined /\ r.fDefined /\ ~(chOp \in {"/", "%"} /\ r.value = 0)
               THEN binOp(chOp, l.value, r.value) ELSE 0,
     fDivZero |-> \/ l.fDivZero \/ r.fDivZero
                  \/ (chOp \in {"/", "%"} /\ r.fDefined /\ r.value = 0)]

Split(vals, ops, j) ==
    Combine(ops[j], Value(SubSeq(vals, 1, j), SubSeq(ops, 1, j - 1)),
            Value(SubSeq(vals, j + 1, Len(vals)), SubSeq(ops, j + 1, Len(ops))))

Value(vals, ops) ==
    IF ops = <<>> THEN [fDefined |-> TRUE, value |-> vals[1], fDivZero |-> FALSE]
    ELSE Split(vals, ops, LastOp(ops))

\* the operators of ops have pairwise different precedence levels
DifferentLevels(ops) ==
    \A i, j \in DOMAIN ops : i # j => aBinOpPrecedence(ops[i]) # aBinOpPrecedence(ops[j])

\* what parseExpression returned is the value v
Returned(v) == v.fDefined => (ret.fResult /\ ret.value = v.value)

\* C18: for every expression of up to three operators of pairwise different
\* precedence levels, parseExpression returns the value obtained by applying
\* higher-precedence operators before lower-precedence ones
C18_PrecedenceRespected ==
    (Parsed /\ DifferentLevels(ret.ops)) => Returned(Value(ret.vals, ret.ops))

\* C19: operators of equal precedence are evaluated left to right: a-b-c is
\* (a-b)-c, a-b+c is (a-b)+c and a/b/c with b and c not zero is
\* trunc(trunc(a/b)/c)
C19_LeftToRight ==
    (Parsed /\ Len(ret.ops) = 2) =>
        /\ ret.ops \in {<<"-", "-">>, <<"-", "+">>} =>
              /\ ret.fResult
              /\ ret.value = binOp(ret.ops[2], binOp("-", ret.vals[1], ret.vals[2]),
                                   ret.vals[3])
        /\ (ret.ops = <<"/", "/">> /\ ret.vals[2] # 0 /\ ret.vals[3] # 0) =>
              /\ ret.fResult
              /\ ret.value = truncDiv(truncDiv(ret.vals[1], ret.vals[2]), ret.vals[3])

\* C20: an expression in which a "/" or "%" is applied to a right operand equal
\* to zero makes parseExpression return no value, also when the reduction that
\* fails is one in the middle of parsing, whose result is not looked at, and
\* further operators and operands follow
C20_DivZeroUndefined ==
    (Parsed /\ ret.fIgnored /\ Value(ret.vals, ret.ops).fDivZero) => ~ret.fResult

----------------------------------------------------------------------------
(* Symbol lookup *)

\* the last operation looked an address up in the symbol tables
Looked == ret.op = "findSymbolAtAddr"

\* the tables whose range holds linear address addr
TablesAt(addr) ==
    { i \in DOMAIN aSymbolTable :
         /\ addr >= aSymbolTable[i].addr
         /\ addr < aSymbolTable[i].addr + aSymbolTable[i].size }

\* the offset index of table i is sorted
SortedIndex(i) ==
    \A j, k \in DOMAIN aSymbolTable[i].aOffsetPairs :
       j < k => aSymbolTable[i].aOffsetPairs[j].off < aSymbolTable[i].aOffsetPairs[k].off

\* the offsets of the symbols of table i
OffsetsOf(i) == { aSymbolTable[i].aSymbols[j].o : j \in DOMAIN aSymbolTable[i].aSymbols }

\* the symbol of table i at offset off as findSymbolAtAddr returns it: an
\* anonymous symbol has no name
EntryOf(i, off) ==
    With(CHOOSE j \in DOMAIN aSymbolTable[i].aSymbols : aSymbolTable[i].aSymbols[j].o = off,
         LAMBDA j :
            [sSymbol |-> IF aSymbolTable[i].aSymbols[j].sSymbol \in Anonymous
                         THEN NoString ELSE aSymbolTable[i].aSymbols[j].sSymbol,
             offset |-> off, a |-> aSymbolTable[i].aSymbols[j].a])

\* the symbols returned for offset off of table i when nearest symbols are asked
\* for and no symbol is at off
NearestOf(i, off) ==
    /\ Len(ret.aSymbol) = 2
    /\ \A o \in OffsetsOf(i) :
          (o < off /\ \A o2 \in OffsetsOf(i) : o2 < off => o2 <= o)
              => ret.aSymbol[1] = EntryOf(i, o)
    /\ \A o \in OffsetsOf(i) :
          (o > off /\ \A o2 \in OffsetsOf(i) : o2 > off => o2 >= o)
              => ret.aSymbol[2] = EntryOf(i, o)

\* C21: for a table with a sorted offset index and an address in its range,
\* findSymbolAtAddr with fNearest returns the symbol of the greatest offset below
\* the offset looked up and then the symbol of the least offset above it when no
\* symbol has that offset, and the symbol at the offset alone when one has
C21_NearestSymbols ==
    Looked =>
        \A i \in TablesAt(ret.addr) :
            SortedIndex(i) =>
                /\ (ret.fNearest /\ ret.dbgAddr.off \notin OffsetsOf(i)) =>
                       NearestOf(i, ret.dbgAddr.off)
                /\ ret.dbgAddr.off \in OffsetsOf(i) =>
                       ret.aSymbol = <<EntryOf(i, ret.dbgAddr.off)>>

\* offset 0019 was looked up in a table whose symbols, added in another order,
\* are at 000A, 0014 and 001E: the symbols at 0014 and 001E are returned
C21_Witness ==
    /\ Looked /\ ret.fNearest /\ ret.dbgAddr.off = 25
    /\ \E i \in TablesAt(ret.addr) :
          /\ OffsetsOf(i) = {10, 20, 30}
          /\ aSymbolTable[i].aSymbols[1].o = 30
    /\ Len(ret.aSymbol) = 2
    /\ ret.aSymbol[1].offset = 20 /\ ret.aSymbol[2].offset = 30

----------------------------------------------------------------------------
(* The alias fold *)

\* the last operation folded an address
Mapped == ret.op = "mapBreakpoint"

\* addr is an address of the bus: 20 bits, 24 bits or any 32-bit integer
Addressable(addr) ==
    machine.maskAddrHi = 65535 \/ (addr >= 0 /\ addr \div 65536 <= machine.maskAddrHi)

\* addr lies in the topmost 64KB of the addresses of the bus
Topmost(addr) == Addressable(addr) /\ (addr \div 65536) % 65536 = machine.maskAddrHi

----------------------------------------------------------------------------
(* Saved state *)

\* the new Debugger has just been handed the state save() returned
Restored == ret.op = "save" /\ ret'.op = "powerUp"

\* C23: a Debugger that is powered up with the state save() returned has the
\* next-code address, the next-data address, the assemble address, the command
\* history and the enabled message categories save() found
C23_RoundTrip ==
    [][Restored => /\ dbgAddrNextCode' = dbgAddrNextCode
                   /\ dbgAddrNextData' = dbgAddrNextData
                   /\ dbgAddrAssemble' = dbgAddrAssemble
                   /\ aPrevCmds' = aPrevCmds
                   /\ bitsMessage' = bitsMessage]_vars

----------------------------------------------------------------------------
(* Re-entrancy *)

\* the operations that call addBreakpoint() or checkBreakpoint()
Guarded == {"addBreakpoint", "checkMemory", "nested"}

\* C24: nSuppressBreaks is never negative; addBreakpoint() and checkBreakpoint()
\* leave it as they found it; and a checkBreakpoint() entered while it is greater
\* than 0 returns false, leaves it as it found it, and leaves every collection and
\* every other field alone
C24_CounterGuards ==
    [][/\ nSuppressBreaks' >= 0
       /\ ret'.op \in Guarded => nSuppressBreaks' = nSuppressBreaks
       /\ (ret'.op = "nested" /\ ret'.nInner > 0)
             => (~ret'.fInner /\ ret'.fInnerSame /\ ret'.nInnerExit = ret'.nInner)]_vars

\* a read made from within the scan of a collection that holds a read breakpoint
\* on the byte read, the scan itself finding a breakpoint
C24_Witness ==
    /\ ret.op = "nested" /\ ret.outer = "checkBreakpoint" /\ ret.nInner = 1
    /\ ret.fResult
    /\ Len(aBreakRead) > 1
    /\ nSuppressBreaks = 0

----------------------------------------------------------------------------
(* Step-over *)

\* C25: once the CPU has stopped no step-over is in progress, so that doProcStep
\* is not refused ("step in progress") while the CPU is stopped
C25_StepEnds ==
    /\ ~fRunning => fProcStep = 0
    /\ (ret.op = "doProcStep" /\ ~ret.fResult) => fRunning

\* an exec breakpoint is temporary
TempBreaks == { j \in 2..Len(aBreakExec) : aBreakExec[j].fTempBreak }

\* C26: while the CPU is stopped and no step-over is in progress, the exec
\* collection holds no temporary breakpoint
C26_NoTempLeft == (~fRunning /\ fProcStep = 0) => TempBreaks = {}

----------------------------------------------------------------------------
(* Breakpoints before history *)

\* C27: a checkInstruction() that returns true leaves the history cursor, the
\* history slots, the opcode counters and cInstructions as they were
C27_HitBeforeHistory ==
    [][(ret'.op = "checkInstruction" /\ ret'.fResult)
          => UNCHANGED <<iOpcodeHistory, aOpcodeHistory, aaOpcodeCounts, cInstructions>>]_vars

----------------------------------------------------------------------------
(* History playback after the buffer has wrapped *)

\* every slot of the history buffer has been written
Wrapped ==
    /\ Len(aOpcodeHistory) > 0
    /\ \A j \in 1..Len(aOpcodeHistory) : aOpcodeHistory[j].sel # NULL

\* C28: once every slot has been written, dumpHistory(n) with n up to the capacity
\* of the buffer starts n slots before the write cursor, going backwards past
\* slot 0 to the end of the buffer
C28_WrappedStart ==
    (ret.op = "dumpHistory" /\ Wrapped /\ ret.n <= Len(aOpcodeHistory))
        => ret.start = (iOpcodeHistory - ret.n) % Len(aOpcodeHistory)

----------------------------------------------------------------------------
(* Unassembling a range *)

\* C29: doUnassemble with an end address it accepts ends, whether or not the start
\* address can be read, having printed no more lines than the range has bytes
C29_RangeEnds ==
    (ret.op = "unassembleRange" /\ ret.fAccepted)
        => (~ret.fStuck /\ ret.cLines <= ret.cb)

----------------------------------------------------------------------------
(* The register command *)

\* bits 8-15 of r replaced by bits 0-7 of w
WithHigh(r, w) == (r - ((r \div 256) % 256) * 256) + (w % 256) * 256

\* bits 0-7 of r replaced by bits 0-7 of w
WithLow(r, w) == (r - (r % 256)) + (w % 256)

\* the command "r reg=value" has just been given
RegisterSet(names) == ret'.op = "doRegisters" /\ ret'.sReg \in names

\* C30: "r ah=w" (and bh, ch, dh) replaces bits 8-15 of the register with w & 0xFF
\* and nothing else, as "r al=w" replaces bits 0-7; no register changes when the
\* value does not evaluate or the name is no register
C30_HighByteSet ==
    [][/\ (RegisterSet(DOMAIN HighNames) /\ ret'.fDefined)
            => regs' = [regs EXCEPT ![HighNames[ret'.sReg]] = WithHigh(@, ret'.w)]
       /\ (RegisterSet(DOMAIN LowNames) /\ ret'.fDefined)
            => regs' = [regs EXCEPT ![LowNames[ret'.sReg]] = WithLow(@, ret'.w)]
       /\ (RegisterSet(RegNames) /\ (~ret'.fDefined \/ ret'.sReg = "XX"))
            => regs' = regs]_vars
====
